---------------------------- MODULE Spec2Model ----------------------------
(***************************************************************************)
(* A model of fmfi/ka-autofix: the RTF tokenizer, parser, flattener and    *)
(* content projection of rtf.py, and the template alignment of             *)
(* ka_autofix.py (check_formular_sp).  The code is modelled as Python 3    *)
(* runs it (both files start with "#!/usr/bin/env python3").               *)
(*                                                                         *)
(* Bytes are integers 0..255, byte strings are sequences of them, text is  *)
(* a sequence of code points.  None is modelled by a flag or by NoPos.     *)
(***************************************************************************)
EXTENDS Integers, Sequences, FiniteSets, TLC

VARIABLES
    input,      \* the bytes given to ByteStream
    encoding,   \* parse's encoding argument (NoEncoding for None)
    mode,       \* which caller runs: "tokenize" = list(tokenize(b)), "parse" = the pipeline
    pc,         \* position of the caller
    bs,         \* ByteStream: [start, len, pos], _buf = input[start+1 .. start+len]
    yielded,    \* tokens the tokenize generator has yielded so far
    peekbuf,    \* PeekIter._buf
    nodes,      \* arena of the nodes built by parse; node id = index
    stack,      \* parse's stack of Scope
    effective,  \* effective.encoding
    trailing,   \* parse's trailing list
    document,   \* the Document parse returned: [root, trailing], or NoDocument
    flat,       \* list(flatten(document))
    out,        \* b''.join(bytes(t) for t in flat)
    content,    \* list(document_content(document.root)), node ids
    exc,        \* the exception that escaped: [type, position]
    assigned,   \* the caller's assignment to Text.text: [node, old, stale], or NoAssign
    flat2,      \* list(flatten(document)), a second time
    appending,  \* the caller's call group.append(node): [group, node], or NoAppend
    got,        \* the number of bytes the caller's get() calls have returned
    called,     \* the caller's last call on the ByteStream: "none", "get" or "peek"
    opened_with,\* history: effective.encoding as it was when each Scope of stack was pushed
    walked,     \* the caller's lists of dfs_ltr, dfs_rtl, walk_left and walk_right of a node
    target,     \* the caller's flatten(node, encoding): [node, encoding], node 0 = the Document
    cells,      \* check_formular_sp: per row its nodes and list(split_end_by(row, ...))
    rows,       \* check_formular_sp: the actual rows
    form_rows,  \* check_formular_sp: the template
    i,          \* check_formular_sp: i
    j,          \* check_formular_sp: j
    row_index,  \* check_formular_sp: row_index
    table,      \* check_formular_sp: table
    direction,  \* check_formular_sp: direction
    printed,    \* check_formular_sp: what the backtracking loop has printed
    apc         \* check_formular_sp: position

rtfvars == <<input, encoding, mode, pc, bs, yielded, peekbuf, nodes, stack,
             effective, trailing, document, flat, out, content, exc>>
rtfvars_but_bs == <<input, encoding, mode, pc, yielded, peekbuf, nodes, stack,
                    effective, trailing, document, flat, out, content, exc>>
alignvars == <<rows, form_rows, i, j, row_index, table, direction, printed, apc>>
editvars == <<assigned, flat2, appending, got, called, walked, target, cells>>
callvars == <<editvars, opened_with>>
vars == <<rtfvars, alignvars, callvars>>

Min(a, b) == IF a < b THEN a ELSE b

(***************************************************************************)
(* Bytes the code names.                                                   *)
(***************************************************************************)
LBrace == 123
RBrace == 125
Backslash == 92
Quote == 39
Space == 32
Minus == 45
Plus == 43
CR == 13
LF == 10
Tilde == 126
Underscore == 95
Star == 42
EOF == -1          \* b'', what get() and peek() return at the end of input
NoPos == -1        \* pos=None
MissingPos == -2   \* the object has no attribute pos
ChunkSize == 1024
MaxWordLen == 32

IsLower(b) == b >= 97 /\ b <= 122
IsUpper(b) == b >= 65 /\ b <= 90
IsLetter(b) == IsLower(b) \/ IsUpper(b)
IsDigit(b) == b >= 48 /\ b <= 57
IsHexDigit(b) == IsDigit(b) \/ (b >= 97 /\ b <= 102) \/ (b >= 65 /\ b <= 70)
HexDigitVal(b) == IF IsDigit(b) THEN b - 48 ELSE IF b >= 97 THEN b - 87 ELSE b - 55
\* bytes.isspace(): what int() strips from both ends
IsPySpace(b) == b \in {9, 10, 11, 12, 13, 32}

(***************************************************************************)
(* ByteStream.  _readbuf refills when pos reached the end of _buf, and     *)
(* sets pos back to 0.                                                     *)
(***************************************************************************)
NewByteStream == [start |-> 0, len |-> 0, pos |-> 0]

readbuf(s) ==
    IF s.pos = s.len
    THEN [start |-> s.start + s.len,
          len |-> Min(ChunkSize, Len(input) - (s.start + s.len)),
          pos |-> 0]
    ELSE s

\* the byte at the cursor of a stream on which _readbuf has run
ByteAt(s) == IF s.pos = s.len THEN EOF ELSE input[s.start + s.pos + 1]

\* peek() returns peek(s) and leaves the stream as readbuf(s)
peek(s) == ByteAt(readbuf(s))

\* get() returns peek(s) and leaves the stream as get(s)
Advance(r) == IF r.pos = r.len THEN r ELSE [r EXCEPT !.pos = @ + 1]
get(s) == Advance(readbuf(s))

(***************************************************************************)
(* Tokens, one record shape for every class.                               *)
(*   bytes:    word, symbol, Separator.bytes or BinaryData.data            *)
(*   number:   ControlWord.number (hasnum = FALSE for None), Char.ordinal  *)
(***************************************************************************)
Tok(type, bytes, hasnum, number, trail, opening, pos) ==
    [type |-> type, bytes |-> bytes, hasnum |-> hasnum, number |-> number,
     trailing |-> trail, opening |-> opening, pos |-> pos]

GroupBoundary(opening, pos) == Tok("GroupBoundary", <<>>, FALSE, 0, <<>>, opening, pos)
ControlWord(word, hasnum, number, pos, trail) ==
    Tok("ControlWord", word, hasnum, number, trail, FALSE, pos)
\* BinaryData.__init__ does not call Token.__init__: no pos attribute
BinaryData(data, trail) == Tok("BinaryData", data, FALSE, 0, trail, FALSE, MissingPos)
ControlSymbol(symbol, pos) == Tok("ControlSymbol", symbol, FALSE, 0, <<>>, FALSE, pos)
Separator(bytes, pos) == Tok("Separator", bytes, FALSE, 0, <<>>, FALSE, pos)
RawChar(ordinal, pos) == Tok("RawChar", <<>>, TRUE, ordinal, <<>>, FALSE, pos)
ANSIEscapedChar(ordinal, pos) == Tok("ANSIEscapedChar", <<>>, TRUE, ordinal, <<>>, FALSE, pos)
NoToken == Tok("None", <<>>, FALSE, 0, <<>>, FALSE, NoPos)

IsChar(t) == t.type \in {"RawChar", "ANSIEscapedChar"}

NoException == [type |-> "None", position |-> NoPos]
Raise(type, position) == [type |-> type, position |-> position]


(***************************************************************************)
(* tokenize.  tokenize_next(s) resumes the generator on stream s and runs  *)
(* it to its next yield, its return or the exception that escapes it:      *)
(*   [res |-> "yield" | "return" | "raise" | "hang", tok, bs, exc]         *)
(* "hang" is the \bin loop, which never leaves once entered (skip is never *)
(* decremented); it has then read the stream to its end.                   *)
(***************************************************************************)
Yield(tok, s) == [res |-> "yield", tok |-> tok, bs |-> s, exc |-> NoException]
Return(s) == [res |-> "return", tok |-> NoToken, bs |-> s, exc |-> NoException]
Raised(type, position, s) ==
    [res |-> "raise", tok |-> NoToken, bs |-> s, exc |-> Raise(type, position)]
Hang(s) == [res |-> "hang", tok |-> NoToken, bs |-> s, exc |-> NoException]

\* while letter: word += bs.get(); num += 1; if num > 32: raise
RECURSIVE ReadWord(_, _)
ReadWord(s, word) ==
    IF IsLetter(peek(s))
    THEN IF Len(word) + 1 > MaxWordLen
         THEN [bs |-> get(s), word |-> Append(word, peek(s)), toolong |-> TRUE]
         ELSE ReadWord(get(s), Append(word, peek(s)))
    ELSE [bs |-> readbuf(s), word |-> word, toolong |-> FALSE]

\* while b'0' <= bs.peek() <= b'9': number += bs.get()
RECURSIVE ReadDigits(_, _)
ReadDigits(s, number) ==
    IF IsDigit(peek(s))
    THEN ReadDigits(get(s), Append(number, peek(s)))
    ELSE [bs |-> readbuf(s), number |-> number]

RECURSIVE DecVal(_)
DecVal(digits) ==
    IF digits = <<>> THEN 0
    ELSE 10 * DecVal(SubSeq(digits, 1, Len(digits) - 1)) + (digits[Len(digits)] - 48)

\* int(ascii_as_str(number)) of an optional '-' and digits: ValueError for b'-'
IntOk(number) == IF number[1] = Minus THEN Len(number) > 1 ELSE TRUE
IntVal(number) ==
    IF number[1] = Minus THEN 0 - DecVal(Tail(number)) ELSE DecVal(number)

\* the stream after the \bin loop has read it to the end
RECURSIVE Drain(_)
Drain(s) == IF peek(s) = EOF THEN readbuf(s) ELSE Drain(get(s))

\* the end of the control word branch, lines 283-292
EmitWord(s, word, hasnum, number, trail, loop_pos) ==
    IF word = <<98, 105, 110>>    \* b'bin'
    THEN IF ~hasnum THEN Raised("TypeError", NoPos, s)      \* None < 0
         ELSE IF number < 0 THEN Raised("ParseError", loop_pos, s)
         ELSE IF number > 0 THEN Hang(Drain(s))
         ELSE Yield(BinaryData(<<>>, trail), s)
    ELSE Yield(ControlWord(word, hasnum, number, loop_pos, trail), s)

\* the number read, without the check for a delimiter space
TokenizeNumber_nospace(word, d, loop_pos) ==
    IF ~IntOk(d.number) THEN Raised("ValueError", NoPos, d.bs)
    ELSE EmitWord(d.bs, word, TRUE, IntVal(d.number), <<>>, loop_pos)

\* lines 276-282: d is the number read, as bytes, and the stream after it
TokenizeNumber(word, d, loop_pos) ==
    IF ~IntOk(d.number) THEN Raised("ValueError", NoPos, d.bs)
    ELSE IF ByteAt(d.bs) = Space
    THEN EmitWord(get(d.bs), word, TRUE, IntVal(d.number), <<Space>>, loop_pos)
    ELSE EmitWord(d.bs, word, TRUE, IntVal(d.number), <<>>, loop_pos)

\* lines 271-292: w is the word read and the stream after it
TokenizeWordTail(w, loop_pos) ==
    IF w.toolong THEN Raised("ParseError", w.bs.pos, w.bs)
    ELSE IF ByteAt(w.bs) = Space
    THEN EmitWord(get(w.bs), w.word, FALSE, 0, <<Space>>, loop_pos)
    ELSE IF IsDigit(ByteAt(w.bs)) \/ ByteAt(w.bs) = Minus
    THEN TokenizeNumber(w.word, ReadDigits(get(w.bs), <<ByteAt(w.bs)>>), loop_pos)
    ELSE EmitWord(w.bs, w.word, FALSE, 0, <<>>, loop_pos)

\* lines 265-292; s is the stream after the backslash
TokenizeWord(s, loop_pos) == TokenizeWordTail(ReadWord(s, <<>>), loop_pos)

\* int(bs.get() + bs.get(), 16) of the bytes read (EOF reads add nothing)
HexBytes(b1, b2) == (IF b1 = EOF THEN <<>> ELSE <<b1>>) \o (IF b2 = EOF THEN <<>> ELSE <<b2>>)
HexOk(h) ==
    \/ Len(h) = 1 /\ IsHexDigit(h[1])
    \/ Len(h) = 2 /\ \/ IsHexDigit(h[1]) /\ IsHexDigit(h[2])
                     \/ IsPySpace(h[1]) /\ IsHexDigit(h[2])
                     \/ IsHexDigit(h[1]) /\ IsPySpace(h[2])
                     \/ h[1] \in {Plus, Minus} /\ IsHexDigit(h[2])
HexVal(h) ==
    IF Len(h) = 1 THEN HexDigitVal(h[1])
    ELSE IF IsHexDigit(h[1]) /\ IsHexDigit(h[2]) THEN 16 * HexDigitVal(h[1]) + HexDigitVal(h[2])
    ELSE IF IsHexDigit(h[1]) THEN HexDigitVal(h[1])
    ELSE IF h[1] = Minus THEN 0 - HexDigitVal(h[2])
    ELSE HexDigitVal(h[2])

\* lines 295-296: h is the bytes of the two get() calls, s the stream after them
TokenizeHexTail(h, s) ==
    IF HexOk(h) THEN Yield(ANSIEscapedChar(HexVal(h), NoPos), s)
    ELSE Raised("ValueError", NoPos, s)

\* lines 293-296; s is the stream after the backslash, the quote is peeked
TokenizeHex(s) ==
    TokenizeHexTail(HexBytes(peek(get(s)), peek(get(get(s)))), get(get(get(s))))

\* lines 261-298: e is the stream after the backslash, peeked
TokenizeEscape(e, loop_pos) ==
    IF IsLetter(ByteAt(e)) THEN TokenizeWord(e, loop_pos)
    ELSE IF ByteAt(e) = Quote THEN TokenizeHex(e)
    ELSE Yield(ControlSymbol(IF ByteAt(e) = EOF THEN <<>> ELSE <<ByteAt(e)>>, loop_pos), get(e))

\* lines 299-303: b is the first byte, n the stream after it, peeked
TokenizeSeparator(b, n, loop_pos) ==
    IF (b = CR /\ ByteAt(n) = LF) \/ (b = LF /\ ByteAt(n) = CR)
    THEN Yield(Separator(<<b, ByteAt(n)>>, loop_pos), get(n))
    ELSE Yield(Separator(<<b>>, loop_pos), n)

\* lines 251-305: r is the stream after the peek of line 251
TokenizeByte(r) ==
    IF ByteAt(r) = EOF THEN Return(r)
    ELSE IF ByteAt(r) = LBrace THEN Yield(GroupBoundary(TRUE, r.pos), get(r))
    ELSE IF ByteAt(r) = RBrace THEN Yield(GroupBoundary(FALSE, r.pos), get(r))
    ELSE IF ByteAt(r) = Backslash THEN TokenizeEscape(readbuf(get(r)), r.pos)
    ELSE IF ByteAt(r) = CR \/ ByteAt(r) = LF
    THEN TokenizeSeparator(ByteAt(r), readbuf(get(r)), r.pos)
    ELSE Yield(RawChar(ByteAt(r), r.pos), get(r))

tokenize_next(s) == TokenizeByte(readbuf(s))

(***************************************************************************)
(* Encodings: [codec, id].  codec "cp" with id N is the name 'cpN'.        *)
(***************************************************************************)
Enc(codec, id) == [codec |-> codec, id |-> id]
NoEncoding == Enc("None", 0)
Ascii == Enc("ascii", 0)
CpNone == Enc("cpNone", 0)      \* 'cp{}'.format(None)

RTF_ENCODINGS ==
    [n \in {10000, 10001, 10005, 10007, 10029, 10081} |->
        CASE n = 10000 -> "mac_roman" [] n = 10001 -> "mac_japan"
          [] n = 10005 -> "mac_greek" [] n = 10007 -> "mac_cyrillic"
          [] n = 10029 -> "mac_latin2" [] n = 10081 -> "mac_turkish"]

\* the names 'cpN' Python has a codec for
PythonCodePages ==
    {154, 273, 367, 424, 437, 500, 720, 737, 775, 819, 850, 852, 855, 856, 857,
     858, 860, 861, 862, 863, 864, 865, 866, 869, 874, 875, 932, 936, 949, 950,
     1006, 1026, 1051, 1125, 1140, 1250, 1251, 1252, 1253, 1254, 1255, 1256,
     1257, 1258, 1361, 65001}
\* 'mac_japan' is no Python codec
PythonMacCodecs == {"mac_roman", "mac_greek", "mac_cyrillic", "mac_latin2", "mac_turkish"}

KnownCodec(enc) ==
    \/ enc.codec = "ascii"
    \/ enc.codec \in PythonMacCodecs
    \/ enc.codec = "cp" /\ enc.id \in PythonCodePages

\* bytes 0x81 and 0xE9 under the codecs the model tabulates; -1: the codec
\* has no character for the byte.  Other bytes >= 0x80 and other codecs are
\* outside the table (no OTHER arm: evaluating them is an error).
DecodeHigh(enc, b) ==
    CASE enc.codec = "ascii" -> -1
      [] enc.codec = "cp" /\ enc.id = 437  /\ b = 129 -> 252
      [] enc.codec = "cp" /\ enc.id = 437  /\ b = 233 -> 920
      [] enc.codec = "cp" /\ enc.id = 850  /\ b = 129 -> 252
      [] enc.codec = "cp" /\ enc.id = 850  /\ b = 233 -> 218
      [] enc.codec = "cp" /\ enc.id = 1250 /\ b = 129 -> -1
      [] enc.codec = "cp" /\ enc.id = 1250 /\ b = 233 -> 233
      [] enc.codec = "cp" /\ enc.id = 1252 /\ b = 129 -> -1
      [] enc.codec = "cp" /\ enc.id = 1252 /\ b = 233 -> 233
      [] enc.codec = "mac_roman"    /\ b = 129 -> 197
      [] enc.codec = "mac_roman"    /\ b = 233 -> 200
      [] enc.codec = "mac_greek"    /\ b = 129 -> 185
      [] enc.codec = "mac_greek"    /\ b = 233 -> 953
      [] enc.codec = "mac_cyrillic" /\ b = 129 -> 1041
      [] enc.codec = "mac_cyrillic" /\ b = 233 -> 1081
      [] enc.codec = "mac_latin2"   /\ b = 129 -> 256
      [] enc.codec = "mac_latin2"   /\ b = 233 -> 357
      [] enc.codec = "mac_turkish"  /\ b = 129 -> 197
      [] enc.codec = "mac_turkish"  /\ b = 233 -> 200

AsciiCompatible(enc) ==
    \/ enc.codec = "ascii"
    \/ enc.codec \in PythonMacCodecs
    \/ enc.codec = "cp" /\ enc.id \in {437, 850, 1250, 1252}

\* ba = bytearray(); ba.append(ordinal); ba.decode(enc)
\*   [res |-> "ok" | "UnicodeDecodeError" | "LookupError" | "ValueError", text]
Decode(enc, ordinal) ==
    IF ordinal < 0 \/ ordinal > 255 THEN [res |-> "ValueError", text |-> <<>>]
    ELSE IF ~KnownCodec(enc) THEN [res |-> "LookupError", text |-> <<>>]
    ELSE IF ordinal < 128 /\ AsciiCompatible(enc) THEN [res |-> "ok", text |-> <<ordinal>>]
    ELSE IF DecodeHigh(enc, ordinal) < 0 THEN [res |-> "UnicodeDecodeError", text |-> <<>>]
    ELSE [res |-> "ok", text |-> <<DecodeHigh(enc, ordinal)>>]

(***************************************************************************)
(* Nodes, one record shape for Group, TokenNode and Text.  parent 0: None.  *)
(***************************************************************************)
Node(kind, parent, cont, text, hastokens, tokens, token, pos) ==
    [kind |-> kind, parent |-> parent, content |-> cont, text |-> text,
     hastokens |-> hastokens, tokens |-> tokens, token |-> token, pos |-> pos]
Group(pos) == Node("Group", 0, <<>>, <<>>, FALSE, <<>>, NoToken, pos)
TokenNode(token) == Node("TokenNode", 0, <<>>, <<>>, FALSE, <<>>, token, NoPos)
Text(text, tokens) == Node("Text", 0, <<>>, text, TRUE, tokens, NoToken, NoPos)

NoDocument == [root |-> 0, trailing |-> <<>>]
Scope(group, unicode_skip) == [group |-> group, unicode_skip |-> unicode_skip]

\* Group.append without the check of node.parent
group_append_node_unchecked(ns, g, n) ==
    [raised |-> FALSE,
     nodes |-> [ns EXCEPT ![n].parent = g, ![g].content = Append(ns[g].content, n)]]

\* Group.append, lines 417-421, of the node n of the arena: [raised, nodes];
\* raised is the ValueError
group_append_node(ns, g, n) ==
    IF ns[n].parent # 0 THEN [raised |-> TRUE, nodes |-> ns]
    ELSE [raised |-> FALSE,
          nodes |-> [[ns EXCEPT ![n].parent = g] EXCEPT ![g].content = Append(@, n)]]

\* Group.append of a node just constructed: the node gets the next id
group_append(ns, g, node) == group_append_node(Append(ns, node), g, Len(ns) + 1).nodes

\* no call of Group.append by the caller so far
NoAppend == [group |-> 0, node |-> 0]

\* no flatten(node, encoding) with an encoding has been called
NoTarget == [node |-> -1, encoding |-> NoEncoding]

\* Text.append
text_append(ns, t, text, tokens) ==
    [ns EXCEPT ![t].text = @ \o text, ![t].tokens = @ \o tokens]

\* the Text.text setter without the invalidation of tokens
text_setter_keep(node, text) == [node EXCEPT !.text = text]

\* the Text.text setter, lines 326-330: tokens = None when the text differs
text_setter(node, text) ==
    IF text # node.text THEN [node EXCEPT !.text = text, !.hastokens = FALSE, !.tokens = <<>>]
    ELSE node

\* no assignment to Text.text so far
NoAssign == [node |-> 0, old |-> <<>>, stale |-> <<>>]

\* combine_text without the merge into the last Text node
combine_text_new(ns, g, text, tokens) ==
    text_append(group_append(ns, g, Text(<<>>, <<>>)), Len(ns) + 1, text, tokens)

\* parse.combine_text on the group g at the top of the stack
combine_text(ns, g, text, tokens) ==
    LET c == ns[g].content
    IN  IF c # <<>> /\ ns[c[Len(c)]].kind = "Text"
        THEN text_append(ns, c[Len(c)], text, tokens)
        ELSE text_append(group_append(ns, g, Text(<<>>, <<>>)), Len(ns) + 1, text, tokens)

(***************************************************************************)
(* PeekIter over the tokenize generator.  A pull is                        *)
(*   [res, tok, bs, exc, buf, yielded]                                     *)
(* with res as in tokenize_next, buf the _buf left and yielded the tokens  *)
(* the generator has yielded so far.                                       *)
(***************************************************************************)
Pulled(g, buf, yl) ==
    [res |-> g.res, tok |-> g.tok, bs |-> g.bs, exc |-> g.exc, buf |-> buf,
     yielded |-> IF g.res = "yield" THEN Append(yl, g.tok) ELSE yl]

\* PeekIter.__next__
peekiter_next(buf, s, yl) ==
    IF buf # <<>>
    THEN [res |-> "yield", tok |-> buf[1], bs |-> s, exc |-> NoException,
          buf |-> Tail(buf), yielded |-> yl]
    ELSE Pulled(tokenize_next(s), <<>>, yl)

\* the pull of peek(): the token pulled stays in _buf
Peeked(g, yl) == Pulled(g, IF g.res = "yield" THEN <<g.tok>> ELSE <<>>, yl)

\* PeekIter.peek(0): tok is NoToken with res "return" when peek gives None
peekiter_peek(buf, s, yl) ==
    IF buf # <<>>
    THEN [res |-> "yield", tok |-> buf[1], bs |-> s, exc |-> NoException,
          buf |-> buf, yielded |-> yl]
    ELSE Peeked(tokenize_next(s), yl)

(***************************************************************************)
(* parse: the outcome of one step is                                       *)
(*   [res |-> "ok" | "break" | "raise" | "hang", nodes, stack, effective,  *)
(*    buf, bs, yielded, exc]                                               *)
(***************************************************************************)
Outcome(res, ns, st, eff, q, e) ==
    [res |-> res, nodes |-> ns, stack |-> st, effective |-> eff,
     buf |-> q.buf, bs |-> q.bs, yielded |-> q.yielded, exc |-> e]

\* parse.set_encoding
set_encoding(eff, name) == IF encoding = NoEncoding THEN name ELSE eff

\* lines 549-554: the loop over range(unicode_skip); q is the PeekIter state
\*   [res |-> "ok" | "raise" | "hang", skipped, buf, bs, yielded, exc]
Skipped(res, skipped, q, e) ==
    [res |-> res, skipped |-> skipped, buf |-> q.buf, bs |-> q.bs,
     yielded |-> q.yielded, exc |-> e]

RECURSIVE skip_loop(_, _, _), skip_step(_, _, _)
skip_loop(k, skipped, q) ==
    IF k <= 0 THEN Skipped("ok", skipped, q, NoException)
    ELSE skip_step(k, skipped, peekiter_peek(q.buf, q.bs, q.yielded))
\* the iteration without the break at a group boundary
skip_step_through(k, skipped, to_skip) ==
    IF to_skip.res \in {"raise", "hang"} THEN Skipped(to_skip.res, skipped, to_skip, to_skip.exc)
    ELSE IF to_skip.res = "return"
    THEN Skipped("raise", skipped, to_skip, Raise("StopIteration", NoPos))
    ELSE skip_loop(k - 1, Append(skipped, to_skip.tok),
                   peekiter_next(to_skip.buf, to_skip.bs, to_skip.yielded))
\* one iteration: to_skip is what tokens.peek() gave
skip_step(k, skipped, to_skip) ==
    IF to_skip.res \in {"raise", "hang"} THEN Skipped(to_skip.res, skipped, to_skip, to_skip.exc)
    \* to_skip is None: next(tokens) raises StopIteration, which leaves parse
    ELSE IF to_skip.res = "return"
    THEN Skipped("raise", skipped, to_skip, Raise("StopIteration", NoPos))
    ELSE IF to_skip.tok.type = "GroupBoundary"
    THEN Skipped("ok", skipped, to_skip, NoException)
    ELSE skip_loop(k - 1, Append(skipped, to_skip.tok),
                   peekiter_next(to_skip.buf, to_skip.bs, to_skip.yielded))

\* unichr(ordinal)
UnichrOk(ordinal) == ordinal >= 0 /\ ordinal <= 1114111

\* line 555, after the loop: l is what the loop left
parse_unicode_text(ordinal, l, ns, st, eff) ==
    IF l.res # "ok" THEN Outcome(l.res, ns, st, eff, l, l.exc)
    ELSE IF ~UnichrOk(ordinal) THEN Outcome("raise", ns, st, eff, l, Raise("ValueError", NoPos))
    ELSE Outcome("ok", combine_text(ns, st[Len(st)].group, <<ordinal>>, l.skipped), st, eff, l,
                 NoException)

\* lines 545-556: \u
parse_unicode(token, ns, st, eff, q) ==
    IF ~token.hasnum THEN Outcome("raise", ns, st, eff, q, Raise("TypeError", NoPos))
    ELSE parse_unicode_text(IF token.number < 0 THEN token.number + 65536 ELSE token.number,
                            skip_loop(st[Len(st)].unicode_skip, <<token>>, q), ns, st, eff)

W_u == <<117>>
W_uc == <<117, 99>>
W_ansi == <<97, 110, 115, 105>>
W_pc == <<112, 99>>
W_pca == <<112, 99, 97>>
W_ansicpg == <<97, 110, 115, 105, 99, 112, 103>>

\* lines 567-571
ansicpg_encoding(token) ==
    IF ~token.hasnum THEN CpNone
    ELSE IF token.number \in DOMAIN RTF_ENCODINGS THEN Enc(RTF_ENCODINGS[token.number], 0)
    ELSE Enc("cp", token.number)

\* lines 544-572
parse_control_word(token, ns, st, eff, q) ==
    LET top == st[Len(st)]
        appended == group_append(ns, top.group, TokenNode(token))
    IN  IF token.bytes = W_u THEN parse_unicode(token, ns, st, eff, q)
        ELSE IF token.bytes = W_uc
        THEN IF ~token.hasnum
             THEN Outcome("raise", ns, st, eff, q, Raise("ParseError", token.pos))
             ELSE Outcome("ok", appended,
                          [st EXCEPT ![Len(st)].unicode_skip = token.number], eff, q,
                          NoException)
        ELSE IF token.bytes = W_ansi
        THEN Outcome("ok", appended, st, set_encoding(eff, Ascii), q, NoException)
        ELSE IF token.bytes = W_pc
        THEN Outcome("ok", appended, st, set_encoding(eff, Enc("cp", 437)), q, NoException)
        ELSE IF token.bytes = W_pca
        THEN Outcome("ok", appended, st, set_encoding(eff, Enc("cp", 850)), q, NoException)
        ELSE IF token.bytes = W_ansicpg
        THEN Outcome("ok", appended, st, set_encoding(eff, ansicpg_encoding(token)), q,
                     NoException)
        ELSE Outcome("ok", appended, st, eff, q, NoException)

\* lines 535-543
parse_decoded(d, token, ns, st, eff, q) ==
    IF d.res = "ok"
    THEN Outcome("ok", combine_text(ns, st[Len(st)].group, d.text, <<token>>), st, eff, q,
                 NoException)
    ELSE IF d.res = "UnicodeDecodeError"
    THEN Outcome("ok", group_append(ns, st[Len(st)].group, TokenNode(token)), st, eff, q,
                 NoException)
    ELSE Outcome("raise", ns, st, eff, q, Raise(d.res, NoPos))
parse_char(token, ns, st, eff, q) ==
    parse_decoded(Decode(eff, token.number), token, ns, st, eff, q)

\* lines 573-581
parse_control_symbol(token, ns, st, eff, q) ==
    LET top == st[Len(st)]
    IN  IF token.bytes = <<Tilde>>
        THEN Outcome("ok", combine_text(ns, top.group, <<160>>, <<token>>), st, eff, q, NoException)
        ELSE IF token.bytes = <<Minus>>
        THEN Outcome("ok", combine_text(ns, top.group, <<173>>, <<token>>), st, eff, q, NoException)
        ELSE IF token.bytes = <<Underscore>>
        THEN Outcome("ok", combine_text(ns, top.group, <<8209>>, <<token>>), st, eff, q, NoException)
        ELSE Outcome("ok", group_append(ns, top.group, TokenNode(token)), st, eff, q, NoException)

\* lines 526-583: the body of the main loop for one token
parse_token(token, ns, st, eff, q) ==
    LET top == st[Len(st)]
    IN  IF token.type = "GroupBoundary" /\ token.opening
        THEN Outcome("ok", group_append(ns, top.group, Group(token.pos)),
                     Append(st, Scope(Len(ns) + 1, top.unicode_skip)), eff, q, NoException)
        ELSE IF token.type = "GroupBoundary"
        THEN Outcome(IF Len(st) = 1 THEN "break" ELSE "ok", ns,
                     SubSeq(st, 1, Len(st) - 1), eff, q, NoException)
        ELSE IF IsChar(token) THEN parse_char(token, ns, st, eff, q)
        ELSE IF token.type = "ControlWord" THEN parse_control_word(token, ns, st, eff, q)
        ELSE IF token.type = "ControlSymbol" THEN parse_control_symbol(token, ns, st, eff, q)
        ELSE Outcome("ok", group_append(ns, top.group, TokenNode(token)), st, eff, q,
                     NoException)

(***************************************************************************)
(* escape_text_tokens, flatten and the tokens' __bytes__.  A text is a     *)
(* sequence of code points.                                                *)
(***************************************************************************)
\* six.PY2 under Python 3
PY2 == FALSE

\* ascii_as_bytes(s): s.decode('ascii') of a str raises AttributeError on Python 3
\*   [ok, bytes]
ascii_as_bytes(str) == IF PY2 THEN [ok |-> TRUE, bytes |-> str] ELSE [ok |-> FALSE, bytes |-> <<>>]

NBSP == 160        \* u'\u00a0', no-break space
SHY == 173         \* u'\u00ad', soft hyphen
NBHYPHEN == 8209   \* u'\u2011', non-breaking hyphen
QuestionMark == 63
NoChar == -1       \* prevc = None
W_line == <<108, 105, 110, 101>>

\* the characters of the allow list of line 610
PlainChars ==
    (97..122) \cup (65..90) \cup (48..57)
    \cup {32, 58, 59, 64, 47, 40, 41, 95, 45, 63, 46, 44, 34, 39, 61, 38, 37, 43, 91, 93, 42}

\* RawChar(c.encode('ascii')): the ordinal is a bytes object, kept in bytes
RawCharOfBytes(b) == Tok("RawChar", b, FALSE, 0, <<>>, FALSE, NoPos)

\* c.encode(enc)[0] of the characters the model tabulates (no OTHER arm)
EncodeHigh(enc, c) ==
    CASE enc.codec = "ascii" -> -1
      [] enc.codec = "cp" /\ enc.id = 437  /\ c = 233 -> 130
      [] enc.codec = "cp" /\ enc.id = 437  /\ c = 920 -> 233
      [] enc.codec = "cp" /\ enc.id = 437  /\ c = 32769 -> -1
      [] enc.codec = "cp" /\ enc.id = 1250 /\ c = 233 -> 233
      [] enc.codec = "cp" /\ enc.id = 1250 /\ c = 920 -> -1
      [] enc.codec = "cp" /\ enc.id = 1250 /\ c = 32769 -> -1
      [] enc.codec = "cp" /\ enc.id = 1252 /\ c = 233 -> 233
      [] enc.codec = "cp" /\ enc.id = 1252 /\ c = 920 -> -1
      [] enc.codec = "cp" /\ enc.id = 1252 /\ c = 32769 -> -1

\* c.encode(enc)[0]: [res |-> "ok" | "UnicodeEncodeError" | "LookupError", byte]
Encode(enc, c) ==
    IF ~KnownCodec(enc) THEN [res |-> "LookupError", byte |-> 0]
    ELSE IF c < 128 /\ AsciiCompatible(enc) THEN [res |-> "ok", byte |-> c]
    ELSE IF EncodeHigh(enc, c) < 0 THEN [res |-> "UnicodeEncodeError", byte |-> 0]
    ELSE [res |-> "ok", byte |-> EncodeHigh(enc, c)]

\* what a generator gave: the tokens yielded, and the exception that ended it
\*   [res |-> "ok" | "AttributeError" | "LookupError", tokens]
Emitted(res, tokens) == [res |-> res, tokens |-> tokens]

\* lines 612-625: a character outside the lists
escape_other(c, enc) ==
    IF enc # NoEncoding /\ Encode(enc, c).res = "LookupError"
    THEN Emitted("LookupError", <<>>)
    ELSE IF enc # NoEncoding /\ Encode(enc, c).res = "ok"
    THEN Emitted("ok", <<ANSIEscapedChar(Encode(enc, c).byte, NoPos)>>)
    ELSE Emitted("ok", <<ControlWord(W_u, TRUE, IF c > 32768 THEN c - 65536 ELSE c,
                                     NoPos, <<>>),
                         RawCharOfBytes(<<QuestionMark>>)>>)

\* lines 598-625: one iteration of the loop
escape_char(c, prevc, enc) ==
    IF (c = LF /\ prevc # CR) \/ (c = CR /\ prevc # LF)
    THEN Emitted("ok", <<ControlWord(W_line, FALSE, 0, NoPos, <<>>)>>)
    ELSE IF (c = LF /\ prevc = CR) \/ (c = CR /\ prevc = LF) THEN Emitted("ok", <<>>)
    ELSE IF c \in {Backslash, LBrace, RBrace}
    THEN IF ascii_as_bytes(<<c>>).ok
         THEN Emitted("ok", <<ControlSymbol(ascii_as_bytes(<<c>>).bytes, NoPos)>>)
         ELSE Emitted("AttributeError", <<>>)
    ELSE IF c = NBSP THEN Emitted("ok", <<ControlSymbol(<<Tilde>>, NoPos)>>)
    ELSE IF c = SHY THEN Emitted("ok", <<ControlSymbol(<<Minus>>, NoPos)>>)
    ELSE IF c = NBHYPHEN THEN Emitted("ok", <<ControlSymbol(<<Underscore>>, NoPos)>>)
    ELSE IF c \in PlainChars THEN Emitted("ok", <<RawCharOfBytes(<<c>>)>>)
    ELSE escape_other(c, enc)

\* h, then r unless h ended with an exception
Then(h, r) == IF h.res # "ok" THEN h ELSE Emitted(r.res, h.tokens \o r.tokens)

\* escape_text_tokens: the loop from the k-th character on
RECURSIVE escape_from(_, _, _, _)
escape_from(text, k, prevc, enc) ==
    IF k > Len(text) THEN Emitted("ok", <<>>)
    ELSE Then(escape_char(text[k], prevc, enc),
              IF escape_char(text[k], prevc, enc).res = "ok"
              THEN escape_from(text, k + 1, text[k], enc)
              ELSE Emitted("ok", <<>>))

escape_text_tokens(text, enc) == escape_from(text, 1, NoChar, enc)

\* flatten of a node with the encoding enc, and of a content list: the
\* children of a Group are flattened without the encoding (line 637)
RECURSIVE flatten(_, _, _), flatten_each(_, _)
flatten(ns, n, enc) ==
    IF ns[n].kind = "Group"
    THEN Then(Emitted("ok", <<GroupBoundary(TRUE, NoPos)>>),
              Then(flatten_each(ns, ns[n].content),
                   Emitted("ok", <<GroupBoundary(FALSE, NoPos)>>)))
    ELSE IF ns[n].kind = "TokenNode" THEN Emitted("ok", <<ns[n].token>>)
    ELSE IF ns[n].hastokens THEN Emitted("ok", ns[n].tokens)
    ELSE escape_text_tokens(ns[n].text, enc)
flatten_each(ns, c) ==
    IF c = <<>> THEN Emitted("ok", <<>>)
    ELSE Then(flatten(ns, c[1], NoEncoding),
              IF flatten(ns, c[1], NoEncoding).res = "ok" THEN flatten_each(ns, Tail(c))
              ELSE Emitted("ok", <<>>))

\* flatten of a Document: the root without the encoding (line 649), then trailing
flatten_document(ns, doc, enc) ==
    Then(flatten(ns, doc.root, NoEncoding), Emitted("ok", doc.trailing))

\* str(num) as ASCII bytes
RECURSIVE StrOfNat(_)
StrOfNat(n) == IF n < 10 THEN <<48 + n>> ELSE StrOfNat(n \div 10) \o <<48 + (n % 10)>>
StrOfInt(n) == IF n < 0 THEN <<Minus>> \o StrOfNat(0 - n) ELSE StrOfNat(n)

number_as_bytes(num) == ascii_as_bytes(StrOfInt(num))

\* hex(ordinal)[2:].zfill(2) of an ordinal in 0..255
HexDigit(d) == IF d < 10 THEN 48 + d ELSE 87 + d
HexStr(ordinal) == <<HexDigit(ordinal \div 16), HexDigit(ordinal % 16)>>

\* bytes(token): [ok, bytes]; ok = FALSE is the AttributeError of ascii_as_bytes
token_bytes(t) ==
    CASE t.type = "GroupBoundary" ->
            [ok |-> TRUE, bytes |-> IF t.opening THEN <<LBrace>> ELSE <<RBrace>>]
      [] t.type = "ControlWord" ->
            IF t.hasnum
            THEN LET nb == number_as_bytes(t.number)
                 IN  [ok |-> nb.ok, bytes |-> <<Backslash>> \o t.bytes \o nb.bytes \o t.trailing]
            ELSE [ok |-> TRUE, bytes |-> <<Backslash>> \o t.bytes \o t.trailing]
      [] t.type = "BinaryData" ->
            LET nb == number_as_bytes(Len(t.bytes))
            IN  [ok |-> nb.ok,
                 bytes |-> <<Backslash, 98, 105, 110>> \o nb.bytes \o t.trailing \o t.bytes]
      [] t.type = "ControlSymbol" -> [ok |-> TRUE, bytes |-> <<Backslash>> \o t.bytes]
      [] t.type = "Separator" -> [ok |-> TRUE, bytes |-> t.bytes]
      [] t.type = "RawChar" -> [ok |-> TRUE, bytes |-> <<t.number>>]
      [] t.type = "ANSIEscapedChar" ->
            LET hb == ascii_as_bytes(HexStr(t.number))
            IN  [ok |-> hb.ok, bytes |-> <<Backslash, Quote>> \o hb.bytes]

\* b''.join(bytes(x) for x in tokens): [ok, bytes]
RECURSIVE join_bytes(_)
join_bytes(tokens) ==
    IF tokens = <<>> THEN [ok |-> TRUE, bytes |-> <<>>]
    ELSE LET h == token_bytes(tokens[1])
             r == join_bytes(Tail(tokens))
         IN  IF ~h.ok THEN h
             ELSE [ok |-> r.ok, bytes |-> IF r.ok THEN h.bytes \o r.bytes ELSE <<>>]

(***************************************************************************)
(* Group.destination and document_content.                                 *)
(***************************************************************************)
RTF_DESTINATIONS ==
    {<<97,102,116,110,99,110>>, <<97,102,116,110,115,101,112>>,
     <<97,102,116,110,115,101,112,99>>,
     <<97,110,110,111,116,97,116,105,111,110>>,
     <<97,116,110,97,117,116,104,111,114>>, <<97,116,110,100,97,116,101>>,
     <<97,116,110,105,99,110>>, <<97,116,110,105,100>>,
     <<97,116,110,112,97,114,101,110,116>>, <<97,116,110,114,101,102>>,
     <<97,116,110,116,105,109,101>>, <<97,116,114,102,101,110,100>>,
     <<97,116,114,102,115,116,97,114,116>>, <<97,117,116,104,111,114>>,
     <<98,97,99,107,103,114,111,117,110,100>>,
     <<98,107,109,107,101,110,100>>, <<98,107,109,107,115,116,97,114,116>>,
     <<98,108,105,112,117,105,100>>, <<98,117,112,116,105,109>>,
     <<99,97,116,101,103,111,114,121>>,
     <<99,111,108,111,114,115,99,104,101,109,101,109,97,112,112,105,110,103>>,
     <<99,111,108,111,114,116,98,108>>, <<99,111,109,109,101,110,116>>,
     <<99,111,109,112,97,110,121>>, <<99,114,101,97,116,105,109>>,
     <<100,97,116,97,102,105,101,108,100>>,
     <<100,97,116,97,115,116,111,114,101>>, <<100,101,102,99,104,112>>,
     <<100,101,102,112,97,112>>, <<100,111>>, <<100,111,99,99,111,109,109>>,
     <<100,111,99,118,97,114>>, <<100,112,116,120,98,120,116,101,120,116>>,
     <<101,98,99,101,110,100>>, <<101,98,99,115,116,97,114,116>>,
     <<102,97,99,116,111,105,100,110,97,109,101>>, <<102,97,108,116>>,
     <<102,99,104,97,114,115>>, <<102,102,100,101,102,116,101,120,116>>,
     <<102,102,101,110,116,114,121,109,99,114>>,
     <<102,102,101,120,105,116,109,99,114>>,
     <<102,102,102,111,114,109,97,116>>,
     <<102,102,104,101,108,112,116,101,120,116>>, <<102,102,108>>,
     <<102,102,110,97,109,101>>, <<102,102,115,116,97,116,116,101,120,116>>,
     <<102,105,101,108,100>>, <<102,105,108,101>>,
     <<102,105,108,101,116,98,108>>, <<102,108,100,105,110,115,116>>,
     <<102,108,100,114,115,108,116>>, <<102,108,100,116,121,112,101>>,
     <<102,110,97,109,101>>, <<102,111,110,116,101,109,98>>,
     <<102,111,110,116,102,105,108,101>>, <<102,111,110,116,116,98,108>>,
     <<102,111,111,116,101,114>>, <<102,111,111,116,101,114,102>>,
     <<102,111,111,116,101,114,108>>, <<102,111,111,116,101,114,114>>,
     <<102,111,111,116,110,111,116,101>>,
     <<102,111,114,109,102,105,101,108,100>>, <<102,116,110,99,110>>,
     <<102,116,110,115,101,112>>, <<102,116,110,115,101,112,99>>, <<103>>,
     <<103,101,110,101,114,97,116,111,114>>, <<103,114,105,100,116,98,108>>,
     <<104,101,97,100,101,114>>, <<104,101,97,100,101,114,102>>,
     <<104,101,97,100,101,114,108>>, <<104,101,97,100,101,114,114>>,
     <<104,108>>, <<104,108,102,114>>, <<104,108,105,110,107,98,97,115,101>>,
     <<104,108,108,111,99>>, <<104,108,115,114,99>>, <<104,115,118>>,
     <<104,116,109,108,116,97,103>>, <<105,110,102,111>>,
     <<107,101,121,99,111,100,101>>, <<107,101,121,119,111,114,100,115>>,
     <<108,97,116,101,110,116,115,116,121,108,101,115>>,
     <<108,99,104,97,114,115>>,
     <<108,101,118,101,108,110,117,109,98,101,114,115>>,
     <<108,101,118,101,108,116,101,120,116>>,
     <<108,102,111,108,101,118,101,108>>, <<108,105,110,107,118,97,108>>,
     <<108,105,115,116>>, <<108,105,115,116,108,101,118,101,108>>,
     <<108,105,115,116,110,97,109,101>>,
     <<108,105,115,116,111,118,101,114,114,105,100,101>>,
     <<108,105,115,116,111,118,101,114,114,105,100,101,116,97,98,108,101>>,
     <<108,105,115,116,112,105,99,116,117,114,101>>,
     <<108,105,115,116,115,116,121,108,101,110,97,109,101>>,
     <<108,105,115,116,116,97,98,108,101>>,
     <<108,105,115,116,116,101,120,116>>,
     <<108,115,100,108,111,99,107,101,100,101,120,99,101,112,116>>,
     <<109,97,99,99>>, <<109,97,99,99,80,114>>,
     <<109,97,105,108,109,101,114,103,101>>, <<109,97,108,110>>,
     <<109,97,108,110,83,99,114>>, <<109,97,110,97,103,101,114>>,
     <<109,97,114,103,80,114>>, <<109,98,97,114>>, <<109,98,97,114,80,114>>,
     <<109,98,97,115,101,74,99>>, <<109,98,101,103,67,104,114>>,
     <<109,98,111,114,100,101,114,66,111,120>>,
     <<109,98,111,114,100,101,114,66,111,120,80,114>>, <<109,98,111,120>>,
     <<109,98,111,120,80,114>>, <<109,99,104,114>>,
     <<109,99,111,117,110,116>>, <<109,99,116,114,108,80,114>>, <<109,100>>,
     <<109,100,80,114>>, <<109,100,101,103>>,
     <<109,100,101,103,72,105,100,101>>, <<109,100,101,110>>,
     <<109,100,105,102,102>>, <<109,101,32,50>>,
     <<109,101,110,100,67,104,114>>, <<109,101,113,65,114,114>>,
     <<109,101,113,65,114,114,80,114>>, <<109,102>>,
     <<109,102,78,97,109,101>>, <<109,102,80,114>>, <<109,102,117,110,99>>,
     <<109,102,117,110,99,80,114>>, <<109,103,114,111,117,112,67,104,114>>,
     <<109,103,114,111,117,112,67,104,114,80,114>>, <<109,103,114,111,119>>,
     <<109,104,105,100,101,66,111,116>>,
     <<109,104,105,100,101,76,101,102,116>>,
     <<109,104,105,100,101,82,105,103,104,116>>,
     <<109,104,105,100,101,84,111,112>>, <<109,104,116,109,108,116,97,103>>,
     <<109,108,105,109>>, <<109,108,105,109,108,111,99>>,
     <<109,108,105,109,108,111,119>>, <<109,108,105,109,108,111,119,80,114>>,
     <<109,108,105,109,117,112,112>>, <<109,108,105,109,117,112,112,80,114>>,
     <<109,109>>, <<109,109,80,114>>,
     <<109,109,97,100,100,102,105,101,108,100,110,97,109,101>>,
     <<109,109,97,116,104>>, <<109,109,97,116,104,80,105,99,116>>,
     <<109,109,97,116,104,80,114>>, <<109,109,97,120,100,105,115,116>>,
     <<109,109,99>>, <<109,109,99,74,99>>, <<109,109,99,80,114>>,
     <<109,109,99,111,110,110,101,99,116,115,116,114>>,
     <<109,109,99,111,110,110,101,99,116,115,116,114,100,97,116,97>>,
     <<109,109,99,115>>, <<109,109,100,97,116,97,115,111,117,114,99,101>>,
     <<109,109,104,101,97,100,101,114,115,111,117,114,99,101>>,
     <<109,109,109,97,105,108,115,117,98,106,101,99,116>>,
     <<109,109,111,100,115,111>>,
     <<109,109,111,100,115,111,102,105,108,116,101,114>>,
     <<109,109,111,100,115,111,102,108,100,109,112,100,97,116,97>>,
     <<109,109,111,100,115,111,109,97,112,112,101,100,110,97,109,101>>,
     <<109,109,111,100,115,111,110,97,109,101>>,
     <<109,109,111,100,115,111,114,101,99,105,112,100,97,116,97>>,
     <<109,109,111,100,115,111,115,111,114,116>>,
     <<109,109,111,100,115,111,115,114,99,32>>,
     <<109,109,111,100,115,111,116,97,98,108,101>>,
     <<109,109,111,100,115,111,117,100,108>>,
     <<109,109,111,100,115,111,117,100,108,100,97,116,97,32,50,48,48>>,
     <<109,109,111,100,115,111,117,110,105,113,117,101,116,97,103>>,
     <<109,109,113,117,101,114,121>>, <<109,109,114>>,
     <<109,110,97,114,121>>, <<109,110,97,114,121,80,114>>,
     <<109,110,111,66,114,101,97,107>>, <<109,110,117,109>>,
     <<109,111,77,97,116,104>>, <<109,111,77,97,116,104,80,97,114,97>>,
     <<109,111,77,97,116,104,80,97,114,97,80,114>>,
     <<109,111,98,106,68,105,115,116>>, <<109,111,112,69,109,117>>,
     <<109,112,104,97,110,116>>, <<109,112,104,97,110,116,80,114>>,
     <<109,112,108,99,72,105,100,101>>, <<109,112,111,115>>, <<109,114>>,
     <<109,114,80,114>>, <<109,114,97,100>>, <<109,114,97,100,80,114>>,
     <<109,115,80,114,101>>, <<109,115,80,114,101,80,114>>,
     <<109,115,83,117,98>>, <<109,115,83,117,98,80,114>>,
     <<109,115,83,117,98,83,117,112>>,
     <<109,115,83,117,98,83,117,112,80,114>>, <<109,115,83,117,112>>,
     <<109,115,83,117,112,80,114>>, <<109,115,101,112,67,104,114>>,
     <<109,115,104,111,119>>, <<109,115,104,112>>,
     <<109,115,116,114,105,107,101,66,76,84,82>>,
     <<109,115,116,114,105,107,101,72>>,
     <<109,115,116,114,105,107,101,84,76,66,82>>,
     <<109,115,116,114,105,107,101,86>>, <<109,115,117,98>>,
     <<109,115,117,98,72,105,100,101>>, <<109,115,117,112>>,
     <<109,115,117,112,72,105,100,101>>, <<109,116,114,97,110,115,112>>,
     <<109,116,121,112,101>>, <<109,118,101,114,116,74,99>>,
     <<109,118,102,109,102>>, <<109,118,102,109,108>>,
     <<109,118,116,111,102>>, <<109,118,116,111,108>>,
     <<109,122,101,114,111,65,115,99>>,
     <<109,122,101,114,111,68,101,115,99>>,
     <<109,122,101,114,111,87,105,100>>,
     <<110,101,115,116,116,97,98,108,101,112,114,111,112,115>>,
     <<110,101,120,116,102,105,108,101>>,
     <<110,111,110,101,115,116,116,97,98,108,101,115>>,
     <<111,98,106,97,108,105,97,115>>, <<111,98,106,99,108,97,115,115>>,
     <<111,98,106,100,97,116,97>>, <<111,98,106,101,99,116>>,
     <<111,98,106,110,97,109,101>>, <<111,98,106,115,101,99,116>>,
     <<111,98,106,116,105,109,101>>, <<111,108,100,99,112,114,111,112,115>>,
     <<111,108,100,112,112,114,111,112,115>>,
     <<111,108,100,115,112,114,111,112,115>>,
     <<111,108,100,116,112,114,111,112,115>>,
     <<111,108,101,99,108,115,105,100>>, <<111,112,101,114,97,116,111,114>>,
     <<112,97,110,111,115,101>>, <<112,97,115,115,119,111,114,100>>,
     <<112,97,115,115,119,111,114,100,104,97,115,104>>, <<112,103,112>>,
     <<112,103,112,116,98,108>>, <<112,105,99,112,114,111,112>>,
     <<112,105,99,116>>, <<112,110>>, <<112,110,115,101,99,108,118,108>>,
     <<112,110,116,101,120,116>>, <<112,110,116,120,116,97>>,
     <<112,110,116,120,116,98>>, <<112,114,105,110,116,105,109>>,
     <<112,114,105,118,97,116,101>>, <<112,114,111,112,110,97,109,101>>,
     <<112,114,111,116,101,110,100>>, <<112,114,111,116,115,116,97,114,116>>,
     <<112,114,111,116,117,115,101,114,116,98,108>>, <<112,120,101>>,
     <<114,101,115,117,108,116>>, <<114,101,118,116,98,108>>,
     <<114,101,118,116,105,109>>, <<114,115,105,100,116,98,108>>,
     <<114,116,102>>, <<114,120,101>>, <<115,104,112>>,
     <<115,104,112,103,114,112>>, <<115,104,112,105,110,115,116>>,
     <<115,104,112,112,105,99,116>>, <<115,104,112,114,115,108,116>>,
     <<115,104,112,116,120,116>>, <<115,110>>, <<115,112>>,
     <<115,116,97,116,105,99,118,97,108>>,
     <<115,116,121,108,101,115,104,101,101,116>>,
     <<115,117,98,106,101,99,116>>, <<115,118>>, <<115,118,98>>, <<116,99>>,
     <<116,101,109,112,108,97,116,101>>,
     <<116,104,101,109,101,100,97,116,97>>, <<116,105,116,108,101>>,
     <<116,120,101>>, <<117,100>>, <<117,112,114>>,
     <<117,115,101,114,112,114,111,112,115>>,
     <<119,103,114,102,102,109,116,102,105,108,116,101,114>>,
     <<119,105,110,100,111,119,99,97,112,116,105,111,110>>,
     <<119,114,105,116,101,114,101,115,101,114,118,97,116,105,111,110>>,
     <<119,114,105,116,101,114,101,115,101,114,118,104,97,115,104>>,
     <<120,101>>, <<120,102,111,114,109>>,
     <<120,109,108,97,116,116,114,110,97,109,101>>,
     <<120,109,108,97,116,116,114,118,97,108,117,101>>,
     <<120,109,108,99,108,111,115,101>>, <<120,109,108,110,97,109,101>>,
     <<120,109,108,110,115,116,98,108>>, <<120,109,108,111,112,101,110>>}

\* Group.destination: [destination (node id, 0 for None), invisible]
destination(ns, g) ==
    LET c == ns[g].content
        invisible == /\ c # <<>>
                     /\ ns[c[1]].kind = "TokenNode"
                     /\ ns[c[1]].token.type = "ControlSymbol"
                     /\ ns[c[1]].token.bytes = <<Star>>
        pos == IF invisible THEN 2 ELSE 1
    IN  IF Len(c) < pos THEN [destination |-> 0, invisible |-> invisible]
        ELSE IF /\ ns[c[pos]].kind = "TokenNode"
                /\ ns[c[pos]].token.type = "ControlWord"
                /\ ns[c[pos]].token.bytes \in RTF_DESTINATIONS
        THEN [destination |-> c[pos], invisible |-> invisible]
        ELSE [destination |-> 0, invisible |-> invisible]

\* the destination words document_content skips, lines 783-786
CONTENT_SKIPPED ==
    {<<99,111,108,111,114,116,98,108>>, <<102,111,110,116,116,98,108>>,
     <<115,116,121,108,101,115,104,101,101,116>>,
     <<116,104,101,109,101,100,97,116,97>>, <<104,101,97,100,101,114>>,
     <<104,101,97,100,101,114,108>>, <<104,101,97,100,101,114,114>>,
     <<104,101,97,100,101,114,102>>, <<102,111,111,116,101,114>>,
     <<102,111,111,116,101,114,108>>, <<102,111,111,116,101,114,114>>,
     <<102,111,111,116,101,114,102>>, <<102,111,111,116,110,111,116,101>>,
     <<105,110,102,111>>, <<109,109,97,116,104,80,114>>}

\* document_content(node), and of each node of a content list: the ids of the
\* nodes it yields, in order
RECURSIVE document_content(_, _), document_content_each(_, _)
\* document_content that knows the metadata destinations at the top level only
document_content_top(ns, n) ==
    IF ns[n].kind = "Group"
    THEN IF /\ destination(ns, n).destination # 0
            /\ ns[destination(ns, n).destination].token.bytes \in CONTENT_SKIPPED
            /\ ns[n].parent = 1
         THEN <<>>
         ELSE IF destination(ns, n).destination # 0 /\ destination(ns, n).invisible THEN <<>>
         ELSE document_content_each(ns, ns[n].content)
    ELSE <<n>>
document_content(ns, n) ==
    LET d == destination(ns, n)
    IN  IF ns[n].kind = "Group"
        THEN IF d.destination # 0 /\ ns[d.destination].token.bytes \in CONTENT_SKIPPED
             THEN <<>>
             ELSE IF d.destination # 0 /\ d.invisible THEN <<>>
             ELSE document_content_each(ns, ns[n].content)
        ELSE <<n>>
document_content_each(ns, c) ==
    IF c = <<>> THEN <<>>
    ELSE document_content(ns, c[1]) \o document_content_each(ns, Tail(c))

(***************************************************************************)
(* dfs_rtl, dfs_ltr, walk_left, walk_right.  A generator is given by the    *)
(* list of the nodes it yields: [res, nodes], res = "AssertionError" when   *)
(* it raises after them.                                                    *)
(***************************************************************************)
NoWalk == [node |-> 0]
Walked(res, ns) == [res |-> res, nodes |-> ns]
WalkThen(h, r) == IF h.res # "ok" THEN h ELSE Walked(r.res, h.nodes \o r.nodes)

\* dfs_ltr; dfs_ltr_each is its loop over node.content
RECURSIVE dfs_ltr(_, _, _), dfs_ltr_each(_, _)
dfs_ltr(ns, n, include_root) ==
    (IF include_root THEN <<n>> ELSE <<>>)
        \o (IF ns[n].kind = "Group" THEN dfs_ltr_each(ns, ns[n].content) ELSE <<>>)
dfs_ltr_each(ns, c) ==
    IF c = <<>> THEN <<>> ELSE dfs_ltr(ns, c[1], TRUE) \o dfs_ltr_each(ns, Tail(c))

\* dfs_rtl; dfs_rtl_each is its loop over reversed(node.content)
RECURSIVE dfs_rtl(_, _, _), dfs_rtl_each(_, _)
\* dfs_rtl without reversed() in line 677
dfs_rtl_forward(ns, n, include_root) == dfs_ltr(ns, n, include_root)
dfs_rtl(ns, n, include_root) ==
    (IF include_root THEN <<n>> ELSE <<>>)
        \o (IF ns[n].kind = "Group" THEN dfs_rtl_each(ns, ns[n].content) ELSE <<>>)
dfs_rtl_each(ns, c) ==
    IF c = <<>> THEN <<>>
    ELSE dfs_rtl(ns, c[Len(c)], TRUE) \o dfs_rtl_each(ns, SubSeq(c, 1, Len(c) - 1))

\* lines 697-702, 722-727: the position of node in its parent's content,
\* counted from 1; 0 when the loop ends without a break
current_index(c, n) ==
    IF \E k \in 1..Len(c) : c[k] = n
    THEN CHOOSE k \in 1..Len(c) : c[k] = n /\ \A h \in 1..k - 1 : c[h] # n
    ELSE 0

RECURSIVE walk_left(_, _)
walk_left(ns, n) ==
    IF ns[n].parent = 0 \/ ns[ns[n].parent].kind # "Group" THEN Walked("ok", <<>>)
    ELSE IF current_index(ns[ns[n].parent].content, n) = 0
    THEN Walked("AssertionError", <<>>)
    ELSE WalkThen(Walked("ok",
                         dfs_rtl_each(ns, SubSeq(ns[ns[n].parent].content, 1,
                                  current_index(ns[ns[n].parent].content, n) - 1))
                             \o <<ns[n].parent>>),
                  walk_left(ns, ns[n].parent))

RECURSIVE walk_right(_, _)
\* walk_right without line 729: the walk starts at the node, not after it
walk_right_at_node(ns, n) ==
    IF ns[n].parent = 0 \/ ns[ns[n].parent].kind # "Group" THEN Walked("ok", <<>>)
    ELSE WalkThen(Walked("ok",
                         dfs_ltr_each(ns, SubSeq(ns[ns[n].parent].content,
                                  current_index(ns[ns[n].parent].content, n),
                                  Len(ns[ns[n].parent].content)))
                             \o <<ns[n].parent>>),
                  walk_right(ns, ns[n].parent))
walk_right(ns, n) ==
    IF ns[n].parent = 0 \/ ns[ns[n].parent].kind # "Group" THEN Walked("ok", <<>>)
    ELSE IF current_index(ns[ns[n].parent].content, n) = 0
    THEN Walked("AssertionError", <<>>)
    ELSE WalkThen(Walked("ok",
                         dfs_ltr_each(ns, SubSeq(ns[ns[n].parent].content,
                                  current_index(ns[ns[n].parent].content, n) + 1,
                                  Len(ns[ns[n].parent].content)))
                             \o <<ns[n].parent>>),
                  walk_right(ns, ns[n].parent))

(***************************************************************************)
(* match_control_word, as_text, split_by, split_end_by, on lists of node    *)
(* ids.                                                                     *)
(***************************************************************************)
W_row == <<114, 111, 119>>
W_cell == <<99, 101, 108, 108>>

\* match_control_word(name)(node), number not specified
match_control_word(ns, n, name) ==
    /\ ns[n].kind = "TokenNode"
    /\ ns[n].token.type = "ControlWord"
    /\ ns[n].token.bytes = name

RECURSIVE as_text(_, _)
as_text(ns, seq) ==
    IF seq = <<>> THEN <<>>
    ELSE (IF ns[seq[1]].kind = "Text" THEN ns[seq[1]].text
          ELSE IF ns[seq[1]].kind = "Group" THEN as_text(ns, ns[seq[1]].content)
          ELSE <<>>) \o as_text(ns, Tail(seq))

\* takewhile(lambda x: not matcher(x), nodes) from the k-th node on: where it stops
RECURSIVE takewhile_end(_, _, _, _)
takewhile_end(ns, seq, k, name) ==
    IF k > Len(seq) \/ match_control_word(ns, seq[k], name) THEN k
    ELSE takewhile_end(ns, seq, k + 1, name)

\* split_by from the k-th node on, each part consumed before the next is asked
\* for; takewhile drops the node it stops at
RECURSIVE split_by(_, _, _, _)
split_by(ns, seq, k, name) ==
    IF k > Len(seq) THEN <<>>
    ELSE <<SubSeq(seq, k, takewhile_end(ns, seq, k, name) - 1)>>
             \o split_by(ns, seq, takewhile_end(ns, seq, k, name) + 1, name)

\* split_end_by with line 810 undone after the loop: what is left is yielded too
RECURSIVE split_end_by(_, _, _, _, _)
split_end_by_with_rest(ns, seq, k, item, name) ==
    IF k > Len(seq) THEN <<item>>
    ELSE IF match_control_word(ns, seq[k], name)
    THEN <<item>> \o split_end_by(ns, seq, k + 1, <<>>, name)
    ELSE split_end_by(ns, seq, k + 1, Append(item, seq[k]), name)
\* split_end_by: the loop from the k-th node on, item being the list so far
split_end_by(ns, seq, k, item, name) ==
    IF k > Len(seq) THEN <<>>
    ELSE IF match_control_word(ns, seq[k], name)
    THEN <<item>> \o split_end_by(ns, seq, k + 1, <<>>, name)
    ELSE split_end_by(ns, seq, k + 1, Append(item, seq[k]), name)

\* check_formular_sp, lines 444-446: per row its nodes and its cells
row_cells(ns, parts) ==
    [r \in 1..Len(parts) |->
        [row |-> parts[r], cells |-> split_end_by(ns, parts[r], 1, <<>>, W_cell)]]
cell_texts(ns, cs) ==
    [r \in 1..Len(cs) |-> [c \in 1..Len(cs[r].cells) |-> as_text(ns, cs[r].cells[c])]]

(***************************************************************************)
(* ka_autofix.py: the template entries and their match methods.  A cell    *)
(* text is a sequence of code points; a template cell is                   *)
(*   [user |-> TRUE] for UserData, or [user |-> FALSE, content |-> text].  *)
(* rows and row_index are 0-based in the code: rows[index] is              *)
(* rows[index + 1] here.                                                   *)
(***************************************************************************)
UserData == [user |-> TRUE, content |-> <<>>]
FormCell(text) == [user |-> FALSE, content |-> text]
FormRow(cs) == [kind |-> "FormRow", content |-> cs, cols |-> 0, numbers |-> FALSE]
ItemList(cols, numbers) ==
    [kind |-> "ItemList", content |-> <<>>, cols |-> cols, numbers |-> numbers]

\* the result of a match: [raised, matches, skip]; raised is the IndexError
Matched(matches, skip) == [raised |-> FALSE, matches |-> matches, skip |-> skip]
MatchRaised == [raised |-> TRUE, matches |-> FALSE, skip |-> 0]

\* FormRow.match
FormRow_match(fr, rs, index) ==
    Matched(/\ \A c \in 1..Min(Len(fr.content), Len(rs[index + 1])) :
                  fr.content[c].user \/ fr.content[c].content = rs[index + 1][c]
            /\ Len(fr.content) = Len(rs[index + 1]),
            1)

\* '{}.'.format(n)
NumLabel(n) == StrOfNat(n) \o <<46>>

\* ItemList.match: the loop over itertools.count(0), from item on
RECURSIVE ItemList_loop(_, _, _, _)
ItemList_loop(il, rs, index, item) ==
    IF index + item >= Len(rs) THEN MatchRaised
    ELSE IF Len(rs[index + item + 1]) # il.cols + 1 THEN Matched(item > 0, item)
    ELSE IF il.numbers /\ rs[index + item + 1][1] # NumLabel(item + 1)
    THEN Matched(item > 0, item)
    ELSE ItemList_loop(il, rs, index, item + 1)

ItemList_match(il, rs, index) == ItemList_loop(il, rs, index, 0)

\* form_rows[j-1].match(rows, row_index)
entry_match(entry, rs, index) ==
    IF entry.kind = "FormRow" THEN FormRow_match(entry, rs, index)
    ELSE ItemList_match(entry, rs, index)

(***************************************************************************)
(* check_formular_sp, lines 457-482.  The state of the fill is             *)
(*   [table, direction, row_index, j, raised].                             *)
(***************************************************************************)
ZeroTable(rs, fs) == [a \in 0..Len(rs) |-> [b \in 0..Len(fs) |-> 0]]

Min3(a, b, c) == Min(a, Min(b, c))

\* lines 470-482: the cell (a, b), a > 0 and b > 0, once match is known
fill_value(s, a, b, have_data, m, subst, delet, inser) ==
    [table |-> [s.table EXCEPT ![a][b] = Min3(subst, delet, inser)],
     direction |-> [s.direction EXCEPT ![a][b] =
                       IF Min3(subst, delet, inser) = subst THEN 0
                       ELSE IF Min3(subst, delet, inser) = inser THEN 1
                       ELSE IF ~have_data THEN 3 ELSE 2],
     row_index |-> IF have_data THEN s.row_index + Min(1, m.skip) ELSE s.row_index,
     j |-> b, raised |-> FALSE]

\* lines 464-482: the cell (a, b), a > 0 and b > 0; m is the result of match
fill_matched(s, a, b, have_data, m) ==
    IF m.raised THEN [s EXCEPT !.j = b, !.raised = TRUE]
    ELSE fill_value(s, a, b, have_data, m,
                    s.table[a - 1][b - 1] + (IF m.matches THEN 0 ELSE 1),
                    s.table[a - 1][b] + (IF have_data THEN 1 ELSE 0),
                    s.table[a][b - 1] + 1)

\* lines 459-482: the body of the inner loop
fill_cell(s, a, b) ==
    IF a = 0 THEN [s EXCEPT !.table[a][b] = b, !.j = b]
    ELSE IF b = 0 THEN [s EXCEPT !.table[a][b] = a, !.j = b]
    ELSE fill_matched(s, a, b, Len(rows) > s.row_index,
                      IF Len(rows) > s.row_index
                      THEN entry_match(form_rows[b], rows, s.row_index)
                      ELSE Matched(FALSE, 0))

\* line 458: for j in range(len(form_rows) + 1), from b on
RECURSIVE fill_row(_, _, _)
fill_row(s, a, b) ==
    IF s.raised \/ b > Len(form_rows) THEN s
    ELSE fill_row(fill_cell(s, a, b), a, b + 1)

(***************************************************************************)
(* The inputs.  Each family is every input of a shape up to a bound.       *)
(***************************************************************************)
MaxBody == 3       \* segments after the opening brace of a TextInputs input
MaxBytes == 4      \* bytes of a ByteInputs input
MaxNodes == 2      \* groups and characters inside the root of a TreeInputs input
MaxLetters == 34   \* letters of a WordInputs control word

SeqsUpTo(S, n) == UNION {[1..k -> S] : k \in 0..n}

RECURSIVE Concat(_)
Concat(ss) == IF ss = <<>> THEN <<>> ELSE ss[1] \o Concat(Tail(ss))

\* {  }  a  \u-1  \uc2  \~  \'e9
TextSegs ==
    {<<LBrace>>, <<RBrace>>, <<97>>, <<Backslash, 117, Minus, 49>>,
     <<Backslash, 117, 99, 50>>, <<Backslash, Tilde>>, <<Backslash, Quote, 101, 57>>}
TextInputs == {<<LBrace>> \o Concat(b) : b \in SeqsUpTo(TextSegs, MaxBody)}

\* \  a  1  -  space  '  CR
ByteAlphabet == {Backslash, 97, 49, Minus, Space, Quote, CR}
ByteInputs == SeqsUpTo(ByteAlphabet, MaxBytes)

\* what may follow the opening brace of a group:
\*   nothing, \info , \*\foo , \*\info , \*
Prefixes ==
    {<<>>, <<Backslash, 105, 110, 102, 111, Space>>,
     <<Backslash, Star, Backslash, 102, 111, 111, Space>>,
     <<Backslash, Star, Backslash, 105, 110, 102, 111, Space>>,
     <<Backslash, Star>>}

\* the node sequences of exactly n nodes, a node being the character 'a' or a
\* group, whose content counts too
RECURSIVE Forest(_)
Forest(n) ==
    IF n = 0 THEN {<<>>}
    ELSE UNION {
           {item \o rest :
              item \in (IF k = 1 THEN {<<97>>} ELSE {})
                       \cup {<<LBrace>> \o p \o body \o <<RBrace>> :
                               p \in Prefixes, body \in Forest(k - 1)},
              rest \in Forest(n - k)} : k \in 1..n}
TreeInputs ==
    {<<LBrace>> \o body \o <<RBrace>> : body \in UNION {Forest(n) : n \in 0..MaxNodes}}

RECURSIVE Letters(_)
Letters(n) == IF n = 0 THEN <<>> ELSE <<97>> \o Letters(n - 1)
\* a control word of n letters after nothing or a space, before nothing, a digit or a space
WordInputs ==
    {pre \o <<Backslash>> \o Letters(n) \o post :
        pre \in {<<>>, <<Space>>}, n \in 1..MaxLetters, post \in {<<>>, <<49>>, <<Space>>}}

\* b'{\\rtf1Hello\\u32?world}', tests.py line 17 (\u is no escape in a bytes literal)
Ex_test_combine ==
    <<123, 92, 114, 116, 102, 49, 72, 101, 108, 108, 111, 92, 117, 51, 50, 63,
      119, 111, 114, 108, 100, 125>>
\* b'\\rtf1 \\fs2', tests.py line 13
Ex_rtf1_sp_fs2 == <<92, 114, 116, 102, 49, 32, 92, 102, 115, 50>>
\* b'\\rtf1\\fs2', tests.py line 12
Ex_rtf1_fs2 == <<92, 114, 116, 102, 49, 92, 102, 115, 50>>

\* further inputs, in this order:
\*   '{}'
\*   ''
\*   '\\rtf1'
\*   '\\rtf1  \\fs2'
\*   '\\rtf \\fs2'
\*   '\\bin0'
\*   '\\bin0 x'
\*   '{\\bin0}'
\*   '{\\bin1x}'
\*   '{\\bin-1}'
\*   '{\\bin}'
\*   '{\\fs02}'
\*   "{\\'E9}"
\*   '{a}\r\n\n'
\*   '{a}x'
\*   '{a}\\bin0'
\*   '{}}'
\*   '{\\u}'
\*   '{\\uc}'
\*   '{\\a-}'
\*   "{\\'zz}"
\*   "{\\'-1}"
\*   '{\\ansicpg1 a}'
\*   "{\\ansicpg1250\\'e9\\'81}"
\*   "{\\pc\\'e9{\\pca\\'e9}\\'e9}"
\*   '{\\uc2\\u1ab}'
\*   '{\\uc2\\u-1a{b}}'
\*   '{\\uc0\\u233a}'
\*   '{{\\uc0}\\u1ab}'
\*   '{\\u1114112}'
\*   '{\\uc-1\\u1a}'
\*   '{a\\-\\_\\~b}'
\*   '{\\u1\\bin1}'
\*   "{\\u1\\'zz}"
\*   '{\\*\\foo x}'
\*   '{\\info{a}}b\n'
\*   '{a{b{\\info c{d}}e}f}'
\*   '{a{\\*\\foo x{y}}b}'
\*   '{{\\*\\info a}{\\*}{\\*b}\\info}'
\*   '{\\fs-2 a}'
\*   '{\\rtf1 \\fs2}'
\*   '{a'
\*   '{\\u-3?}'
Examples ==
    {Ex_test_combine, Ex_rtf1_sp_fs2, Ex_rtf1_fs2,
     <<123, 125>>,
     <<>>,
     <<92, 114, 116, 102, 49>>,
     <<92, 114, 116, 102, 49, 32, 32, 92, 102, 115, 50>>,
     <<92, 114, 116, 102, 32, 92, 102, 115, 50>>,
     <<92, 98, 105, 110, 48>>,
     <<92, 98, 105, 110, 48, 32, 120>>,
     <<123, 92, 98, 105, 110, 48, 125>>,
     <<123, 92, 98, 105, 110, 49, 120, 125>>,
     <<123, 92, 98, 105, 110, 45, 49, 125>>,
     <<123, 92, 98, 105, 110, 125>>,
     <<123, 92, 102, 115, 48, 50, 125>>,
     <<123, 92, 39, 69, 57, 125>>,
     <<123, 97, 125, 13, 10, 10>>,
     <<123, 97, 125, 120>>,
     <<123, 97, 125, 92, 98, 105, 110, 48>>,
     <<123, 125, 125>>,
     <<123, 92, 117, 125>>,
     <<123, 92, 117, 99, 125>>,
     <<123, 92, 97, 45, 125>>,
     <<123, 92, 39, 122, 122, 125>>,
     <<123, 92, 39, 45, 49, 125>>,
     <<123, 92, 97, 110, 115, 105, 99, 112, 103, 49, 32, 97, 125>>,
     <<123, 92, 97, 110, 115, 105, 99, 112, 103, 49, 50, 53, 48, 92, 39, 101, 57, 92, 39, 56, 49, 125>>,
     <<123, 92, 112, 99, 92, 39, 101, 57, 123, 92, 112, 99, 97, 92, 39, 101, 57, 125, 92, 39, 101, 57, 125>>,
     <<123, 92, 117, 99, 50, 92, 117, 49, 97, 98, 125>>,
     <<123, 92>>,
     <<123, 92, 39>>,
     <<123, 92, 39, 101>>,
     <<123, 92, 98, 105, 110, 50, 120>>,
     <<123, 92, 117, 99, 50, 92, 117, 45, 49, 97, 123, 98, 125, 125>>,
     <<123, 92, 117, 99, 48, 92, 117, 50, 51, 51, 97, 125>>,
     <<123, 123, 92, 117, 99, 48, 125, 92, 117, 49, 97, 98, 125>>,
     <<123, 92, 117, 49, 49, 49, 52, 49, 49, 50, 125>>,
     <<123, 92, 117, 99, 45, 49, 92, 117, 49, 97, 125>>,
     <<123, 97, 92, 45, 92, 95, 92, 126, 98, 125>>,
     <<123, 92, 117, 49, 92, 98, 105, 110, 49, 125>>,
     <<123, 92, 117, 49, 92, 39, 122, 122, 125>>,
     <<123, 92, 42, 92, 102, 111, 111, 32, 120, 125>>,
     <<123, 92, 105, 110, 102, 111, 123, 97, 125, 125, 98, 10>>,
     <<123, 97, 123, 98, 123, 92, 105, 110, 102, 111, 32, 99, 123, 100, 125, 125, 101, 125, 102, 125>>,
     <<123, 97, 123, 92, 42, 92, 102, 111, 111, 32, 120, 123, 121, 125, 125, 98, 125>>,
     <<123, 123, 92, 42, 92, 105, 110, 102, 111, 32, 97, 125, 123, 92, 42, 125, 123, 92, 42, 98, 125, 92, 105, 110, 102, 111, 125>>,
     <<123, 92, 102, 115, 45, 50, 32, 97, 125>>,
     <<123, 92, 114, 116, 102, 49, 32, 92, 102, 115, 50, 125>>,
     <<123, 97>>,
     <<123, 92, 117, 45, 51, 63, 125>>}

\* the runs: [input, mode, encoding]
Run(inp, m, enc) == [input |-> inp, mode |-> m, encoding |-> enc]
Runs ==
    {Run(b, "parse", NoEncoding) : b \in TextInputs \cup TreeInputs \cup Examples}
    \cup {Run(b, "parse", Enc("cp", 1250)) : b \in Examples}
    \cup {Run(b, "tokenize", NoEncoding) : b \in ByteInputs \cup WordInputs \cup Examples}

AlignIdle ==
    /\ rows = <<>> /\ form_rows = <<>> /\ i = 0 /\ j = 0 /\ row_index = 0
    /\ table = <<>> /\ direction = <<>> /\ printed = <<>> /\ apc = "idle"

\* nothing has run yet
Fresh ==
    /\ pc = "start"
    /\ bs = NewByteStream
    /\ yielded = <<>> /\ peekbuf = <<>>
    /\ nodes = <<>> /\ stack = <<>>
    /\ effective = NoEncoding
    /\ trailing = <<>>
    /\ document = NoDocument
    /\ flat = <<>> /\ out = <<>> /\ content = <<>>
    /\ exc = NoException
    /\ assigned = NoAssign /\ flat2 = <<>> /\ appending = NoAppend
    /\ got = 0 /\ called = "none" /\ opened_with = <<>> /\ walked = NoWalk
    /\ target = NoTarget /\ cells = <<>>
    /\ AlignIdle

Init ==
    /\ \E r \in Runs : input = r.input /\ mode = r.mode /\ encoding = r.encoding
    /\ Fresh

\* where the caller goes after a pull that gave no token
PcAfter(res) ==
    CASE res = "raise" -> "raised" [] res = "hang" -> "hang"

(***************************************************************************)
(* list(tokenize(b)): one resumption of the generator                      *)
(***************************************************************************)
Tokenize ==
    /\ mode = "tokenize" /\ pc = "start"
    /\ LET g == tokenize_next(bs)
       IN  /\ bs' = g.bs
           /\ yielded' = IF g.res = "yield" THEN Append(yielded, g.tok) ELSE yielded
           /\ exc' = g.exc
           /\ pc' = IF g.res = "yield" THEN "start"
                    ELSE IF g.res = "return" THEN "listed" ELSE PcAfter(g.res)
    /\ UNCHANGED <<input, encoding, mode, peekbuf, nodes, stack, effective, trailing,
                   document, flat, out, content>>
    /\ UNCHANGED alignvars
    /\ UNCHANGED callvars

(***************************************************************************)
(* parse, lines 502-515: up to the creation of the stack                   *)
(***************************************************************************)
ParseOpen ==
    /\ mode = "parse" /\ pc = "start"
    /\ LET q == peekiter_next(peekbuf, bs, yielded)
           isOpen == q.res = "yield" /\ q.tok.type = "GroupBoundary" /\ q.tok.opening
       IN  /\ bs' = q.bs /\ yielded' = q.yielded /\ peekbuf' = q.buf
           /\ effective' = IF encoding = NoEncoding THEN Ascii ELSE encoding
           /\ exc' = IF q.res = "return" THEN Raise("StopIteration", NoPos)
                     ELSE IF q.res # "yield" THEN q.exc
                     ELSE IF isOpen THEN NoException
                     ELSE IF q.tok.pos = MissingPos THEN Raise("AttributeError", NoPos)
                     ELSE Raise("ParseError", q.tok.pos)
           /\ pc' = IF isOpen THEN "main"
                    ELSE IF q.res = "hang" THEN "hang" ELSE "raised"
           /\ nodes' = IF isOpen THEN <<Group(q.tok.pos)>> ELSE nodes
           /\ stack' = IF isOpen THEN <<Scope(1, 1)>> ELSE stack
           /\ opened_with' = IF isOpen THEN <<effective'>> ELSE opened_with
    /\ UNCHANGED <<input, encoding, mode, trailing, document, flat, out, content>>
    /\ UNCHANGED alignvars
    /\ UNCHANGED editvars

(***************************************************************************)
(* parse, lines 525-583: one iteration of the main loop                    *)
(***************************************************************************)
ParseToken ==
    /\ mode = "parse" /\ pc = "main"
    /\ LET q == peekiter_next(peekbuf, bs, yielded)
           o == IF q.res = "yield" THEN parse_token(q.tok, nodes, stack, effective, q)
                ELSE Outcome(q.res, nodes, stack, effective, q, q.exc)
       IN  /\ bs' = o.bs /\ yielded' = o.yielded /\ peekbuf' = o.buf
           /\ nodes' = o.nodes /\ stack' = o.stack /\ effective' = o.effective
           /\ exc' = o.exc
           /\ pc' = IF o.res = "ok" THEN "main"
                    ELSE IF o.res \in {"break", "return"} THEN "trailing"
                    ELSE PcAfter(o.res)
           /\ opened_with' = IF Len(o.stack) > Len(stack) THEN Append(opened_with, effective)
                             ELSE SubSeq(opened_with, 1, Len(o.stack))
    /\ UNCHANGED <<input, encoding, mode, trailing, document, flat, out, content>>
    /\ UNCHANGED alignvars
    /\ UNCHANGED editvars

(***************************************************************************)
(* parse, lines 585-592: one iteration of the trailing loop, or the return *)
(***************************************************************************)
\* the body of the trailing loop that lets closing boundaries pass
trailing_token_tolerant(tok, tr) ==
    IF tok.type = "Separator"
    THEN [raised |-> FALSE, trailing |-> Append(tr, tok), exc |-> NoException]
    ELSE IF tok.type = "GroupBoundary" /\ ~tok.opening
    THEN [raised |-> FALSE, trailing |-> tr, exc |-> NoException]
    ELSE [raised |-> TRUE, trailing |-> tr, exc |-> Raise("ParseError", tok.pos)]

\* lines 587-590, the body of the trailing loop: [raised, trailing, exc];
\* token.pos of a token without pos raises AttributeError
trailing_token(tok, tr) ==
    IF tok.type = "Separator"
    THEN [raised |-> FALSE, trailing |-> Append(tr, tok), exc |-> NoException]
    ELSE [raised |-> TRUE, trailing |-> tr,
          exc |-> IF tok.pos = MissingPos THEN Raise("AttributeError", NoPos)
                  ELSE Raise("ParseError", tok.pos)]

\* the trailing loop once the pull q of the next token is known
ParseTrailingPulled(q, t) ==
    /\ bs' = q.bs /\ yielded' = q.yielded /\ peekbuf' = q.buf
    /\ trailing' = IF q.res = "yield" THEN t.trailing ELSE trailing
    /\ document' = IF q.res = "return" THEN [root |-> 1, trailing |-> trailing]
                   ELSE document
    /\ exc' = IF q.res = "yield" THEN t.exc ELSE q.exc
    /\ pc' = IF q.res = "yield" THEN (IF t.raised THEN "raised" ELSE "trailing")
             ELSE IF q.res = "return" THEN "parsed"
             ELSE IF q.res = "hang" THEN "hang" ELSE "raised"

ParseTrailing ==
    /\ mode = "parse" /\ pc = "trailing"
    /\ ParseTrailingPulled(peekiter_next(peekbuf, bs, yielded),
                           trailing_token(peekiter_next(peekbuf, bs, yielded).tok, trailing))
    /\ UNCHANGED <<input, encoding, mode, nodes, stack, effective, flat, out, content>>
    /\ UNCHANGED alignvars
    /\ UNCHANGED callvars

(***************************************************************************)
(* the caller of __main__, lines 823-824: flatten, then bytes of each token *)
(***************************************************************************)
Flatten ==
    /\ pc = "parsed"
    /\ LET f == flatten_document(nodes, document, NoEncoding)
       IN  /\ flat' = IF f.res = "ok" THEN f.tokens ELSE flat
           /\ exc' = IF f.res = "ok" THEN exc ELSE Raise(f.res, NoPos)
           /\ pc' = IF f.res = "ok" THEN "flattened" ELSE "raised"
    /\ UNCHANGED <<input, encoding, mode, bs, yielded, peekbuf, nodes, stack, effective,
                   trailing, document, out, content>>
    /\ UNCHANGED alignvars
    /\ UNCHANGED callvars

Write ==
    /\ pc = "flattened"
    /\ LET b == join_bytes(flat)
       IN  /\ out' = b.bytes
           /\ exc' = IF b.ok THEN NoException ELSE Raise("AttributeError", NoPos)
           /\ pc' = IF b.ok THEN "written" ELSE "raised"
    /\ UNCHANGED <<input, encoding, mode, bs, yielded, peekbuf, nodes, stack, effective,
                   trailing, document, flat, content>>
    /\ UNCHANGED alignvars
    /\ UNCHANGED callvars

(***************************************************************************)
(* the caller check_formular_sp, line 445: document_content(document.root) *)
(***************************************************************************)
Content ==
    /\ pc = "parsed"
    /\ content' = document_content(nodes, document.root)
    /\ pc' = "projected"
    /\ UNCHANGED <<input, encoding, mode, bs, yielded, peekbuf, nodes, stack, effective,
                   trailing, document, flat, out, exc>>
    /\ UNCHANGED alignvars
    /\ UNCHANGED callvars

(***************************************************************************)
(* the \bin loop, lines 288-289, at the end of the input: data += b''      *)
(***************************************************************************)
BinLoop ==
    /\ pc = "hang"
    /\ UNCHANGED vars

Next ==
    \/ Tokenize
    \/ ParseOpen
    \/ ParseToken
    \/ ParseTrailing
    \/ Flatten
    \/ Write
    \/ Content
    \/ BinLoop

Spec == Init /\ [][Next]_vars

(***************************************************************************)
(* A caller that edits the tree: it parses, assigns a text to one Text     *)
(* node (node.text = x) and flattens the document twice.                   *)
(***************************************************************************)
MaxEditLen == 2    \* length of the assigned text

\* a, {, LF, CR, e-acute, capital theta, no-break space
EditChars == {97, LBrace, LF, CR, 233, 920, NBSP}
MaxLineLen == 4    \* length of an assigned text of line endings
EditTexts == SeqsUpTo(EditChars, MaxEditLen) \cup SeqsUpTo({CR, LF}, MaxLineLen)

\* b'{ab}', b'{a{b}c}', b'{{a}{b{c}}}', b'{{{a}}{}}', b'{\\u233?}', b'{a}\n',
\* b'{\\fs2 a}'
EditInputs ==
    {<<123, 97, 98, 125>>,
     <<123, 97, 123, 98, 125, 99, 125>>,
     <<123, 123, 97, 125, 123, 98, 123, 99, 125, 125, 125>>,
     <<123, 123, 123, 97, 125, 125, 123, 125, 125>>,
     <<123, 92, 117, 50, 51, 51, 63, 125>>,
     <<123, 97, 125, 10>>,
     <<123, 92, 102, 115, 50, 32, 97, 125>>}

InitEdit ==
    /\ input \in EditInputs /\ mode = "parse" /\ encoding = NoEncoding
    /\ Fresh

\* node.text = x, once, on the document parse returned
SetText ==
    /\ pc = "parsed" /\ assigned = NoAssign
    /\ \E t \in 1..Len(nodes) : \E x \in EditTexts :
          /\ nodes[t].kind = "Text"
          /\ assigned' = [node |-> t, old |-> nodes[t].text, stale |-> nodes[t].tokens]
          /\ nodes' = [nodes EXCEPT ![t] = text_setter(@, x)]
    /\ UNCHANGED <<input, encoding, mode, pc, bs, yielded, peekbuf, stack, effective,
                   trailing, document, flat, out, content, exc, flat2, appending,
                   got, called, opened_with, walked, target, cells>>
    /\ UNCHANGED alignvars

\* list(flatten(document)) again
FlattenAgain ==
    /\ pc = "flattened" /\ assigned # NoAssign
    /\ LET f == flatten_document(nodes, document, NoEncoding)
       IN  /\ flat2' = IF f.res = "ok" THEN f.tokens ELSE flat2
           /\ exc' = IF f.res = "ok" THEN exc ELSE Raise(f.res, NoPos)
           /\ pc' = IF f.res = "ok" THEN "reflattened" ELSE "raised"
    /\ UNCHANGED <<input, encoding, mode, bs, yielded, peekbuf, nodes, stack, effective,
                   trailing, document, flat, out, content, assigned, appending,
                   got, called, opened_with, walked, target, cells>>
    /\ UNCHANGED alignvars

\* group.append(node), once, on two nodes of the document parse returned
AppendNode ==
    /\ pc = "parsed" /\ assigned = NoAssign /\ appending = NoAppend
    /\ \E g, n \in 1..Len(nodes) :
          /\ nodes[g].kind = "Group"
          /\ appending' = [group |-> g, node |-> n]
          /\ nodes' = group_append_node(nodes, g, n).nodes
          /\ exc' = IF group_append_node(nodes, g, n).raised THEN Raise("ValueError", NoPos)
                    ELSE exc
          /\ pc' = IF group_append_node(nodes, g, n).raised THEN "raised" ELSE "appended"
    /\ UNCHANGED <<input, encoding, mode, bs, yielded, peekbuf, stack, effective,
                   trailing, document, flat, out, content, assigned, flat2, got, called,
                   opened_with, walked, target, cells>>
    /\ UNCHANGED alignvars

\* list(dfs_ltr(n)), list(dfs_rtl(n)), list(walk_left(n)), list(walk_right(n)),
\* once, on a node of the document parse returned
Walk ==
    /\ pc = "parsed" /\ assigned = NoAssign /\ appending = NoAppend /\ walked = NoWalk
    /\ \E n \in 1..Len(nodes) :
          walked' = [node |-> n,
                     ltr |-> dfs_ltr(nodes, n, TRUE), rtl |-> dfs_rtl(nodes, n, TRUE),
                     left |-> walk_left(nodes, n), right |-> walk_right(nodes, n)]
    /\ pc' = "walked"
    /\ UNCHANGED <<input, encoding, mode, bs, yielded, peekbuf, nodes, stack, effective,
                   trailing, document, flat, out, content, exc, assigned, flat2,
                   appending, got, called, opened_with, target, cells>>
    /\ UNCHANGED alignvars

\* the encodings given to flatten
TargetEncodings == {Enc("cp", 1250), Enc("cp", 437)}

\* flatten(node, encoding) of the node n, 0 for the Document
flatten_to(ns, doc, n, enc) ==
    IF n = 0 THEN flatten_document(ns, doc, enc) ELSE flatten(ns, n, enc)

\* list(flatten(node, encoding)) on the Document parse returned or on one of
\* its nodes, after a text was assigned
FlattenTo ==
    /\ pc = "parsed" /\ assigned # NoAssign
    /\ \E n \in 0..Len(nodes) : \E enc \in TargetEncodings :
          /\ target' = [node |-> n, encoding |-> enc]
          /\ flat' = IF flatten_to(nodes, document, n, enc).res = "ok"
                     THEN flatten_to(nodes, document, n, enc).tokens ELSE flat
          /\ exc' = IF flatten_to(nodes, document, n, enc).res = "ok" THEN exc
                    ELSE Raise(flatten_to(nodes, document, n, enc).res, NoPos)
          /\ pc' = IF flatten_to(nodes, document, n, enc).res = "ok" THEN "flattened_to"
                   ELSE "raised"
    /\ UNCHANGED <<input, encoding, mode, bs, yielded, peekbuf, nodes, stack, effective,
                   trailing, document, out, content, assigned, flat2, appending,
                   got, called, opened_with, walked, cells>>
    /\ UNCHANGED alignvars

NextEdit ==
    \/ ParseOpen
    \/ ParseToken
    \/ ParseTrailing
    \/ SetText
    \/ AppendNode
    \/ Walk
    \/ Flatten
    \/ FlattenAgain
    \/ FlattenTo

SpecEdit == InitEdit /\ [][NextEdit]_vars

(***************************************************************************)
(* A caller of the ByteStream alone: any sequence of get() and peek().     *)
(***************************************************************************)
MaxOver == 2       \* bytes of the input beyond a whole number of chunks

\* inputs of up to MaxOver bytes, and of one chunk and up to MaxOver bytes more
StreamInputs ==
    {[k \in 1..(c + n) |-> 97 + (k % 2)] : c \in {0, ChunkSize}, n \in 0..MaxOver}

InitStream ==
    /\ input \in StreamInputs /\ mode = "stream" /\ encoding = NoEncoding
    /\ Fresh

\* bs.get()
StreamGet ==
    /\ mode = "stream"
    /\ bs' = get(bs)
    /\ got' = IF peek(bs) = EOF THEN got ELSE got + 1
    /\ called' = "get"
    /\ UNCHANGED <<rtfvars_but_bs, alignvars, assigned, flat2, appending, opened_with, walked, target, cells>>

\* bs.peek()
StreamPeek ==
    /\ mode = "stream"
    /\ bs' = readbuf(bs)
    /\ called' = "peek"
    /\ UNCHANGED <<rtfvars_but_bs, alignvars, assigned, flat2, appending, got, opened_with,
                   walked, target, cells>>

NextStream ==
    \/ StreamGet
    \/ StreamPeek

SpecStream == InitStream /\ [][NextStream]_vars

(***************************************************************************)
(* check_formular_sp.  form_rows is struct_formular_sp in the code, a      *)
(* tuple of FormRow and ItemList entries; here it ranges over the small    *)
(* templates of the same entries.  rows is what lines 444-446 collect      *)
(* from the document.                                                      *)
(***************************************************************************)
MaxFixed == 3      \* FormRow entries of a template
MaxItems == 4      \* numbered item rows of the actual rows
MaxPrinted == 2    \* iterations of the backtracking loop that are followed

\* the n-th fixed entry and a row that matches it
FixedLabel(n) == <<64 + n>>
FixedEntry(n) ==
    IF n = 1 THEN FormRow(<<FormCell(FixedLabel(n))>>)
    ELSE FormRow(<<FormCell(FixedLabel(n)), UserData>>)
FixedData(n) == IF n = 1 THEN <<FixedLabel(n)>> ELSE <<FixedLabel(n), <<120>>>>
ItemData(n) == <<NumLabel(n), <<120>>>>
JunkData == <<<<122>>, <<122>>, <<122>>>>

Template(f, list) ==
    [n \in 1..f |-> FixedEntry(n)] \o (IF list THEN <<ItemList(1, TRUE)>> ELSE <<>>)
Templates == {Template(f, list) : f \in 0..MaxFixed, list \in BOOLEAN} \ {<<>>}

\* rows that match f fixed entries and then hold k numbered items
ExactRows(f, k) == [n \in 1..f |-> FixedData(n)] \o [n \in 1..k |-> ItemData(n)]
Without(rs, p) == SubSeq(rs, 1, p - 1) \o SubSeq(rs, p + 1, Len(rs))
WithJunk(rs, p) == SubSeq(rs, 1, p - 1) \o <<JunkData>> \o SubSeq(rs, p, Len(rs))
Edits(rs) ==
    {rs} \cup {Without(rs, p) : p \in 1..Len(rs)}
         \cup {WithJunk(rs, p) : p \in 1..Len(rs) + 1}
         \cup {WithJunk(Without(rs, p), p) : p \in 1..Len(rs)}
RowInputs == UNION {Edits(ExactRows(f, k)) : f \in 0..MaxFixed, k \in 0..MaxItems}

RtfIdle ==
    /\ input = <<>> /\ encoding = NoEncoding /\ mode = "idle" /\ pc = "idle"
    /\ bs = NewByteStream /\ yielded = <<>> /\ peekbuf = <<>>
    /\ nodes = <<>> /\ stack = <<>> /\ effective = NoEncoding /\ trailing = <<>>
    /\ document = NoDocument /\ flat = <<>> /\ out = <<>> /\ content = <<>>
    /\ exc = NoException
    /\ assigned = NoAssign /\ flat2 = <<>> /\ appending = NoAppend
    /\ got = 0 /\ called = "none" /\ opened_with = <<>> /\ walked = NoWalk
    /\ target = NoTarget /\ cells = <<>>

\* lines 444-455: up to the allocation of table and direction
InitAlign ==
    /\ RtfIdle
    /\ rows \in RowInputs
    /\ form_rows \in Templates
    /\ i = 0 /\ j = 0 /\ row_index = 0
    /\ table = ZeroTable(rows, form_rows)
    /\ direction = ZeroTable(rows, form_rows)
    /\ printed = <<>>
    /\ apc = "fill"

UnchangedRtf ==
    UNCHANGED <<input, encoding, mode, pc, bs, yielded, peekbuf, nodes, stack,
                effective, trailing, document, flat, out, content, assigned, flat2,
                appending, got, called, opened_with, walked, target, cells>>

\* what one iteration of the outer loop leaves; line 484 after the last one
FillRowEnd(s) ==
    /\ table' = s.table /\ direction' = s.direction /\ row_index' = s.row_index
    /\ exc' = IF s.raised THEN Raise("IndexError", NoPos) ELSE exc
    /\ apc' = IF s.raised THEN "raised" ELSE IF i = Len(rows) THEN "backtrack" ELSE "fill"
    /\ i' = IF s.raised \/ i = Len(rows) THEN i ELSE i + 1
    /\ j' = IF ~s.raised /\ i = Len(rows) THEN Len(form_rows) ELSE s.j

\* lines 457-482: one iteration of for i in range(len(rows) + 1)
FillRow ==
    /\ apc = "fill"
    /\ FillRowEnd(fill_row([table |-> table, direction |-> direction,
                            row_index |-> row_index, j |-> j, raised |-> FALSE], i, 0))
    /\ UNCHANGED <<rows, form_rows, printed>>
    /\ UnchangedRtf

\* the body of the loop of lines 486-487: print(direction[i][j]), and nothing
\* else; i and j keep their values
backtrack_step(dir, a, b, pr) == [i |-> a, j |-> b, printed |-> Append(pr, dir[a][b])]

\* lines 486-487: one iteration of while i > 0 and j > 0; the iterations
\* after the first MaxPrinted repeat the same state
BacktrackLoop ==
    /\ apc = "backtrack" /\ i > 0 /\ j > 0
    /\ IF Len(printed) < MaxPrinted
       THEN /\ i' = backtrack_step(direction, i, j, printed).i
            /\ j' = backtrack_step(direction, i, j, printed).j
            /\ printed' = backtrack_step(direction, i, j, printed).printed
       ELSE UNCHANGED <<i, j, printed>>
    /\ UNCHANGED <<rows, form_rows, row_index, table, direction, apc>>
    /\ UNCHANGED rtfvars
    /\ UNCHANGED callvars

\* lines 489-490: the loop is left, table and direction are printed
BacktrackEnd ==
    /\ apc = "backtrack" /\ ~(i > 0 /\ j > 0)
    /\ apc' = "done"
    /\ UNCHANGED <<rows, form_rows, i, j, row_index, table, direction, printed>>
    /\ UNCHANGED rtfvars
    /\ UNCHANGED callvars

NextAlign ==
    \/ FillRow
    \/ BacktrackLoop
    \/ BacktrackEnd

SpecAlign == InitAlign /\ [][NextAlign]_vars

(***************************************************************************)
(* The caller check_formular_sp, lines 444-446: the rows and cells of a     *)
(* parsed document.                                                         *)
(***************************************************************************)
\* {a\cell b\cell\row c\cell d}  {\cell\cell}  {a\row\row b\cell\row}
\* {a{b\cell c}\cell}  {a\b\cell}  {}  {a}  {\row}  {a\cell}LF
\* {a\cell b\cell c}  {a\cell\row b\cell c\cell d\row e}
CellInputs ==
    {<<123, 97, 92, 99, 101, 108, 108, 32, 98, 92, 99, 101, 108, 108, 92, 114, 111, 119,
       32, 99, 92, 99, 101, 108, 108, 32, 100, 125>>,
     <<123, 92, 99, 101, 108, 108, 92, 99, 101, 108, 108, 125>>,
     <<123, 97, 92, 114, 111, 119, 92, 114, 111, 119, 32, 98, 92, 99, 101, 108, 108,
       92, 114, 111, 119, 125>>,
     <<123, 97, 123, 98, 92, 99, 101, 108, 108, 32, 99, 125, 92, 99, 101, 108, 108, 125>>,
     <<123, 97, 92, 98, 92, 99, 101, 108, 108, 125>>,
     <<123, 125>>,
     <<123, 97, 125>>,
     <<123, 92, 114, 111, 119, 125>>,
     <<123, 97, 92, 99, 101, 108, 108, 125, 10>>,
     <<123, 97, 92, 99, 101, 108, 108, 32, 98, 92, 99, 101, 108, 108, 32, 99, 125>>,
     <<123, 97, 92, 99, 101, 108, 108, 92, 114, 111, 119, 32, 98, 92, 99, 101, 108,
       108, 32, 99, 92, 99, 101, 108, 108, 32, 100, 92, 114, 111, 119, 32, 101,
       125>>}

InitCells ==
    /\ input \in CellInputs /\ mode = "parse" /\ encoding = NoEncoding
    /\ Fresh

\* lines 444-446 after document_content: rows.append([as_text(x) for x in
\* list(split_end_by(row, ...))]) for each row of split_by
CollectRows ==
    /\ pc = "projected"
    /\ cells' = row_cells(nodes, split_by(nodes, content, 1, W_row))
    /\ rows' = cell_texts(nodes, row_cells(nodes, split_by(nodes, content, 1, W_row)))
    /\ pc' = "collected"
    /\ UNCHANGED <<input, encoding, mode, bs, yielded, peekbuf, nodes, stack, effective,
                   trailing, document, flat, out, content, exc, assigned, flat2,
                   appending, got, called, opened_with, walked, target>>
    /\ UNCHANGED <<form_rows, i, j, row_index, table, direction, printed, apc>>

NextCells ==
    \/ ParseOpen
    \/ ParseToken
    \/ ParseTrailing
    \/ Content
    \/ CollectRows

SpecCells == InitCells /\ [][NextCells]_vars

(***************************************************************************)
(* Properties.                                                             *)
(***************************************************************************)
\* n lies in the subtree of the node g, below g
RECURSIVE IsUnder(_, _, _)
IsUnder(ns, n, g) ==
    ns[n].parent # 0 /\ (ns[n].parent = g \/ IsUnder(ns, ns[n].parent, g))

NodeIds == 1..Len(nodes)
IsIn(x, seq) == \E k \in 1..Len(seq) : seq[k] = x

\* C1: once parse has returned a Document, joining the bytes of the tokens of
\* flatten(document) succeeds and gives the input back, byte for byte.
C1_RoundTrip ==
    (document # NoDocument /\ pc \in {"written", "raised"}) =>
        (pc = "written" /\ out = input)

\* C2: no Group of the tree has two Text nodes next to each other in its
\* content, and the text-producing symbols \~ \- \_ and the \u directive never
\* stay behind as a node of their own.
C2_NoAdjacentText ==
    /\ \A g \in NodeIds : \A k \in 1..(Len(nodes[g].content) - 1) :
          ~(/\ nodes[nodes[g].content[k]].kind = "Text"
            /\ nodes[nodes[g].content[k + 1]].kind = "Text")
    /\ \A n \in NodeIds : nodes[n].kind = "TokenNode" =>
          /\ ~(nodes[n].token.type = "ControlSymbol"
               /\ nodes[n].token.bytes \in {<<Tilde>>, <<Minus>>, <<Underscore>>})
          /\ ~(nodes[n].token.type = "ControlWord" /\ nodes[n].token.bytes = W_u)

\* C2's case: parse has returned a tree in which a Text node holds characters
\* that came from tokens of different kinds
C2_Witness ==
    /\ pc = "parsed"
    /\ \E t \in NodeIds :
          /\ nodes[t].kind = "Text"
          /\ \E a, b \in 1..Len(nodes[t].tokens) :
                /\ nodes[t].tokens[a].type = "RawChar"
                /\ nodes[t].tokens[b].type \in {"ControlSymbol", "ControlWord"}

\* the tokens list(tokenize) gives from the stream s on, up to the end or a failure
RECURSIVE TokensOf(_), TokensFrom(_)
TokensOf(s) == TokensFrom(tokenize_next(s))
TokensFrom(g) == IF g.res = "yield" THEN <<g.tok>> \o TokensOf(g.bs) ELSE <<>>

\* the tokens parse has not consumed yet
Ahead == peekbuf \o TokensOf(bs)

\* how many tokens parse has consumed: those pulled, less the one peeked
Consumed == Len(yielded) - Len(peekbuf)

\* the first k tokens of ts, fewer if a group boundary or the end comes first
RECURSIVE TakeFallback(_, _)
TakeFallback(ts, k) ==
    IF k <= 0 \/ ts = <<>> \/ ts[1].type = "GroupBoundary" THEN <<>>
    ELSE <<ts[1]>> \o TakeFallback(Tail(ts), k - 1)

\* parse is about to read \uN, and the step goes through
C3_Step ==
    /\ mode = "parse" /\ pc = "main" /\ pc' = "main"
    /\ Ahead # <<>>
    /\ Ahead[1].type = "ControlWord" /\ Ahead[1].bytes = W_u /\ Ahead[1].hasnum

\* what the step does to the group g at the top of the stack: t is the Text
\* node the character goes to, fb the tokens consumed as fallback
C3_Effect(g, c, t, hadText, u, fb) ==
    /\ stack' = stack
    /\ Len(nodes') = (IF hadText THEN Len(nodes) ELSE Len(nodes) + 1)
    /\ nodes'[g].content = (IF hadText THEN c ELSE Append(c, t))
    /\ nodes'[t].kind = "Text" /\ nodes'[t].parent = g
    /\ nodes'[t].text = (IF hadText THEN nodes[t].text ELSE <<>>)
                           \o <<IF u.number < 0 THEN u.number + 65536 ELSE u.number>>
    /\ nodes'[t].tokens = (IF hadText THEN nodes[t].tokens ELSE <<>>) \o <<u>> \o fb
    /\ Consumed' = Consumed + 1 + Len(fb)

C3_StepEffect ==
    LET g == stack[Len(stack)].group
        c == nodes[g].content
        hadText == c # <<>> /\ nodes[c[Len(c)]].kind = "Text"
    IN  C3_Effect(g, c, IF hadText THEN c[Len(c)] ELSE Len(nodes) + 1, hadText, Ahead[1],
                  TakeFallback(Tail(Ahead), stack[Len(stack)].unicode_skip))

\* {\rtf1Hello\u32?world} parses to Group[ControlWord(rtf, 1), Text('Hello world')]
C3_Example ==
    (input = Ex_test_combine /\ pc = "parsed") =>
        /\ Len(nodes) = 3
        /\ nodes[1].kind = "Group" /\ nodes[1].content = <<2, 3>>
        /\ nodes[2].kind = "TokenNode" /\ nodes[2].token.type = "ControlWord"
        /\ nodes[2].token.bytes = <<114, 116, 102>>
        /\ nodes[2].token.hasnum /\ nodes[2].token.number = 1
        /\ nodes[3].kind = "Text"
        /\ nodes[3].text = <<72, 101, 108, 108, 111, 32, 119, 111, 114, 108, 100>>

IsRtf1Fs2(a, b) ==
    /\ a.type = "ControlWord" /\ a.bytes = <<114, 116, 102>> /\ a.hasnum /\ a.number = 1
    /\ b.type = "ControlWord" /\ b.bytes = <<102, 115>> /\ b.hasnum /\ b.number = 2

\* b'\\rtf1  \\fs2'
Ex_rtf1_sp_sp_fs2 == <<92, 114, 116, 102, 49, 32, 32, 92, 102, 115, 50>>

\* C4: a control word token's trailing delimiter is a space exactly when a
\* space follows the word in the input, so no RawChar is emitted for that
\* space: a RawChar space right after a control word is a second space.
\* '\rtf1 \fs2' and '\rtf1\fs2' both give [ControlWord(rtf,1), ControlWord(fs,2)],
\* and '\rtf1  \fs2' gives a RawChar for its second space only.
C4_TrailingSpace ==
    /\ \A k \in 1..Len(yielded) : yielded[k].type = "ControlWord" =>
          /\ yielded[k].trailing \in {<<>>, <<Space>>}
          /\ (k < Len(yielded) /\ yielded[k + 1].pos > 0) =>
                ((yielded[k].trailing = <<Space>>) <=> (input[yielded[k + 1].pos] = Space))
          /\ (k < Len(yielded) /\ yielded[k + 1].type = "RawChar"
                /\ yielded[k + 1].number = Space) =>
                yielded[k].trailing = <<Space>>
    /\ (mode = "tokenize" /\ pc = "listed" /\ input \in {Ex_rtf1_sp_fs2, Ex_rtf1_fs2}) =>
          Len(yielded) = 2 /\ IsRtf1Fs2(yielded[1], yielded[2])
    /\ (mode = "tokenize" /\ pc = "listed" /\ input = Ex_rtf1_sp_sp_fs2) =>
          /\ Len(yielded) = 3 /\ IsRtf1Fs2(yielded[1], yielded[3])
          /\ yielded[2].type = "RawChar" /\ yielded[2].number = Space

\* C4's case: the input with two spaces after \rtf1 has been tokenized
C4_Witness ==
    /\ mode = "tokenize" /\ pc = "listed" /\ input = Ex_rtf1_sp_sp_fs2
    /\ yielded[1].trailing = <<Space>>

\* g is a Group whose destination is one of the metadata names
IsMetadataGroup(g) ==
    /\ nodes[g].kind = "Group"
    /\ destination(nodes, g).destination # 0
    /\ nodes[destination(nodes, g).destination].token.bytes \in CONTENT_SKIPPED

\* g is a Group flagged invisible
IsInvisibleGroup(g) == nodes[g].kind = "Group" /\ destination(nodes, g).invisible

\* C5: document_content(document.root) yields no node of the subtree of a
\* Group whose destination is a metadata name, at any depth, and yields every
\* node that is no Group and lies in no metadata and no invisible Group.
C5_MetadataSkipped ==
    pc = "projected" =>
        /\ \A g \in NodeIds : IsMetadataGroup(g) =>
              \A k \in 1..Len(content) :
                  content[k] # g /\ ~IsUnder(nodes, content[k], g)
        /\ \A n \in NodeIds :
              (/\ nodes[n].kind # "Group"
               /\ \A g \in NodeIds :
                     IsUnder(nodes, n, g) => ~IsMetadataGroup(g) /\ ~IsInvisibleGroup(g))
              => IsIn(n, content)

\* C5's case: the content of a tree was projected in which a metadata Group
\* lies two levels or more below the root, and some node was yielded
C5_Witness ==
    /\ pc = "projected"
    /\ content # <<>>
    /\ \E g \in NodeIds :
          /\ IsMetadataGroup(g)
          /\ nodes[g].parent # 0 /\ nodes[nodes[g].parent].parent # 0
          /\ \E n \in NodeIds : nodes[n].kind # "Group" /\ IsUnder(nodes, n, g)

\* C6: document_content(document.root) yields no node of the subtree of a
\* Group flagged invisible, whatever follows the \* marker.
C6_InvisibleSkipped ==
    pc = "projected" =>
        \A g \in NodeIds : IsInvisibleGroup(g) =>
            \A k \in 1..Len(content) : ~IsUnder(nodes, content[k], g)

\* the input is a backslash and n letters, and nothing else
IsWordOf(n) == input = <<Backslash>> \o Letters(n)

\* C9: a control word of 1 to 32 letters is tokenized; one of 33 letters or
\* more ends tokenize with an error whose position is the offset of the 33rd
\* letter, and no token is emitted for the word.
C9_WordLength ==
    (mode = "tokenize" /\ pc \in {"listed", "raised"}) =>
        \A n \in 1..MaxLetters : IsWordOf(n) =>
            IF n <= MaxWordLen
            THEN /\ pc = "listed"
                 /\ yielded = <<ControlWord(Letters(n), FALSE, 0, 0, <<>>)>>
            ELSE /\ pc = "raised"
                 /\ exc.type = "ParseError" /\ exc.position = MaxWordLen + 1
                 /\ yielded = <<>>

\* C10: when the first token is no opening GroupBoundary, parse raises
\* ParseError with that token's position, has pulled that one token only and
\* has built no tree.
C10_FirstToken ==
    (/\ mode = "parse" /\ pc = "raised" /\ stack = <<>> /\ yielded # <<>>)
        => /\ exc.type = "ParseError" /\ exc.position = yielded[1].pos
           /\ Len(yielded) = 1
           /\ nodes = <<>> /\ document = NoDocument

\* the rows match f fixed entries in order and then hold k numbered items
IsExactData ==
    \E f \in 1..MaxFixed, k \in 1..MaxItems :
        form_rows = Template(f, TRUE) /\ rows = ExactRows(f, k)

\* C7: for a template of fixed rows and a repeating block, and rows that match
\* the fixed rows in order followed by k >= 1 numbered item rows, the
\* alignment completes and table[#rows][#template] = 0.
C7_ExactMatch ==
    (IsExactData /\ apc # "fill") =>
        /\ apc \in {"backtrack", "done"}
        /\ table[Len(rows)][Len(form_rows)] = 0

\* the rows match the fixed entries in order, the row of the last one is absent
IsMissingLast ==
    \E f \in 1..MaxFixed :
        form_rows = Template(f, FALSE) /\ rows = ExactRows(f - 1, 0)

\* C8: when the rows match every fixed entry in order but the row of the last
\* entry is absent, the alignment gives table[#rows][#template] = 1.
C8_MissingLast ==
    (IsMissingLast /\ apc \in {"backtrack", "done"}) =>
        table[Len(rows)][Len(form_rows)] = 1

\* the tokens of the subtree of n, the Text node t standing for the tokens toks
RECURSIVE TokensUnder(_, _, _, _), TokensUnderEach(_, _, _, _)
TokensUnder(ns, n, t, toks) ==
    IF n = t THEN toks
    ELSE IF ns[n].kind = "Group"
    THEN <<GroupBoundary(TRUE, NoPos)>> \o TokensUnderEach(ns, ns[n].content, t, toks)
            \o <<GroupBoundary(FALSE, NoPos)>>
    ELSE IF ns[n].kind = "TokenNode" THEN <<ns[n].token>>
    ELSE ns[n].tokens
TokensUnderEach(ns, c, t, toks) ==
    IF c = <<>> THEN <<>>
    ELSE TokensUnder(ns, c[1], t, toks) \o TokensUnderEach(ns, Tail(c), t, toks)

\* a different string was assigned to the text of a Text node
TextChanged == assigned # NoAssign /\ nodes[assigned.node].text # assigned.old

\* C11: after a different string was assigned to a Text node's text, the
\* node has no cached tokens; a flatten of the document that completes emits,
\* for that node, the tokens escape_text_tokens derives from the current
\* text, the other nodes' tokens unchanged around them; a flatten that does
\* not complete fails in that derivation; and a second flatten of the same
\* tree gives the same tokens as the first.
C11_TextInvalidates ==
    TextChanged =>
        /\ ~nodes[assigned.node].hastokens
        /\ pc \in {"flattened", "reflattened"} =>
              /\ escape_text_tokens(nodes[assigned.node].text, NoEncoding).res = "ok"
              /\ flat = TokensUnder(nodes, document.root, assigned.node,
                           escape_text_tokens(nodes[assigned.node].text, NoEncoding).tokens)
                        \o document.trailing
        /\ pc = "raised" =>
              /\ escape_text_tokens(nodes[assigned.node].text, NoEncoding).res = exc.type
              /\ flat = <<>> /\ flat2 = <<>>
        /\ pc = "reflattened" => flat2 = flat

\* C11's case: a text was assigned whose tokens differ from the cached ones,
\* in a tree with other nodes, and the document was flattened twice
C11_Witness ==
    /\ TextChanged /\ pc = "reflattened"
    /\ Len(nodes) > 2
    /\ nodes[assigned.node].text # <<>>
    /\ assigned.stale # <<>>
    /\ assigned.stale # escape_text_tokens(nodes[assigned.node].text, NoEncoding).tokens

\* where the node n occurs in the content lists: <<group, index>>
Occurrences(ns, n) ==
    {<<g, k>> \in (1..Len(ns)) \X (1..Len(ns)) :
        k <= Len(ns[g].content) /\ ns[g].content[k] = n}

\* every node but the root is once in the content of one Group, its parent
SingleParent(ns, root) ==
    /\ ns[root].parent = 0
    /\ \A n \in 1..Len(ns) : n # root =>
          /\ ns[n].parent # 0
          /\ ns[ns[n].parent].kind = "Group"
          /\ \E k \in 1..Len(ns) : Occurrences(ns, n) = {<<ns[n].parent, k>>}

\* the caller calls group.append(node) on a node whose parent is set
C12_AppendAttached ==
    /\ appending = NoAppend /\ appending' # NoAppend
    /\ nodes[appending'.node].parent # 0

\* C12: in the tree parse returns, every node but the root occurs in the
\* content of exactly one Group, once, and that Group is its parent; the
\* root's parent is None.  Group.append of a node whose parent is set raises
\* ValueError and changes no content list and no parent.
C12_SingleParent ==
    [][/\ (pc' = "parsed" /\ appending' = NoAppend) => SingleParent(nodes', document'.root)
       /\ C12_AppendAttached =>
             pc' = "raised" /\ exc'.type = "ValueError" /\ nodes' = nodes]_vars

\* C12's case: a node of a nested group was appended to another group than
\* its parent, and the call raised
C12_Witness ==
    /\ pc = "raised" /\ appending # NoAppend
    /\ nodes[appending.node].parent \notin {0, 1, appending.group}
    /\ SingleParent(nodes, document.root)

\* C13: after any sequence of get() and peek() calls, pos is the number of
\* bytes get() has returned so far, and a peek() leaves pos as it was.
C13_PosCountsBytes ==
    [][mode = "stream" => /\ bs'.pos = got'
                          /\ called' = "peek" => bs'.pos = bs.pos]_vars

\* the offset in the input of the cursor of the stream s
Offset(s) == s.start + s.pos

\* C14: every token tokenize yields, of every class, carries as pos the
\* offset in the input of its first byte, the offset of the stream when the
\* generator was resumed.
C14_TokenPos ==
    [][(mode = "tokenize" /\ Len(yielded') = Len(yielded) + 1) =>
          yielded'[Len(yielded')].pos = Offset(readbuf(bs))]_vars

\* C15: tokenize terminates on every input: the generator is running, has
\* ended or has raised, and is never in the loop of lines 288-289, whose
\* condition skip > 0 nothing in its body changes, so that it has no exit.
C15_Terminates ==
    mode = "tokenize" => pc \in {"start", "listed", "raised"}

\* b'\\bin'
BinWord == <<92, 98, 105, 110>>

\* the input has \bin and a digit at the offset o
IsBinAt(o) ==
    /\ o + Len(BinWord) + 1 <= Len(input)
    /\ SubSeq(input, o + 1, o + Len(BinWord)) = BinWord
    /\ IsDigit(input[o + Len(BinWord) + 1])

\* the offset after the digits that start at the offset k
RECURSIVE DigitsEnd(_)
DigitsEnd(k) == IF k < Len(input) /\ IsDigit(input[k + 1]) THEN DigitsEnd(k + 1) ELSE k

\* the N of the \binN at the offset o, and the offset of its data: after the
\* digits and the delimiter space, if there is one
BinCount(o) == DecVal(SubSeq(input, o + Len(BinWord) + 1, DigitsEnd(o + Len(BinWord))))
BinData(o) ==
    LET e == DigitsEnd(o + Len(BinWord))
    IN  IF e < Len(input) /\ input[e + 1] = Space THEN e + 1 ELSE e

\* C16: when tokenize is resumed at a \binN that at least N bytes follow
\* (after the delimiter space), it yields one BinaryData token whose data is
\* those N bytes, and the stream is left at the byte after them.
C16_BinaryData ==
    [][(/\ mode = "tokenize" /\ pc = "start"
        /\ IsBinAt(Offset(readbuf(bs)))
        /\ BinData(Offset(readbuf(bs))) + BinCount(Offset(readbuf(bs))) <= Len(input))
       => /\ yielded' = Append(yielded, yielded'[Len(yielded')])
          /\ yielded'[Len(yielded')].type = "BinaryData"
          /\ yielded'[Len(yielded')].bytes =
                SubSeq(input, BinData(Offset(readbuf(bs))) + 1,
                       BinData(Offset(readbuf(bs))) + BinCount(Offset(readbuf(bs))))
          /\ Offset(bs') = BinData(Offset(readbuf(bs))) + BinCount(Offset(readbuf(bs)))]_vars

\* C17: when parse has no encoding override and a closing boundary closes a
\* subgroup, the effective encoding is again the one that was effective when
\* the subgroup was opened, so that the characters that follow in the
\* enclosing group are decoded with it.
C17_EncodingScoped ==
    [][(/\ mode = "parse" /\ pc = "main" /\ encoding = NoEncoding
        /\ Len(stack') = Len(stack) - 1 /\ stack' # <<>>)
       => effective' = opened_with[Len(stack)]]_vars

\* the token the main loop of parse reads next, if there is one
NextToken == peekiter_next(peekbuf, bs, yielded)

\* parse is about to read a character token whose byte the effective encoding
\* does not decode
C18_Undecodable ==
    /\ mode = "parse" /\ pc = "main"
    /\ NextToken.res = "yield" /\ IsChar(NextToken.tok)
    /\ NextToken.tok.number \in 0..255
    /\ Decode(effective, NextToken.tok.number).res # "ok"

\* C18: a character token whose byte does not decode under the effective
\* encoding, whatever directive set it, is no error: parse appends the token
\* as a TokenNode to the open group and goes on with the next token.
C18_UndecodableKept ==
    [][C18_Undecodable =>
          /\ pc' = "main" /\ exc' = NoException
          /\ stack' = stack
          /\ nodes' = group_append(nodes, stack[Len(stack)].group, TokenNode(NextToken.tok))]_vars

\* the trailing loop of parse is about to read an excess closing boundary
C19_ExcessClose ==
    /\ mode = "parse" /\ pc = "trailing"
    /\ NextToken.res = "yield"
    /\ NextToken.tok.type = "GroupBoundary" /\ ~NextToken.tok.opening

\* C19 as stated: a closing boundary that follows the one that emptied the
\* stack is tolerated, parse does not reject the input.
C19_ExcessCloseTolerated == [][C19_ExcessClose => pc' # "raised"]_vars

\* C19, amended: the closing boundary that empties the stack ends the main
\* loop at once, and the tree is not touched afterwards; of the tokens that
\* follow, only Separators are accepted: an excess closing boundary makes
\* parse raise ParseError with that boundary's position, and no Document is
\* returned.
C19_ExcessCloseRejected ==
    [][/\ (mode = "parse" /\ pc = "main" /\ stack' = <<>>) => pc' = "trailing"
       /\ (mode = "parse" /\ pc = "trailing") => nodes' = nodes /\ stack' = stack
       /\ C19_ExcessClose =>
             /\ pc' = "raised" /\ document' = NoDocument
             /\ exc' = Raise("ParseError", NextToken.tok.pos)]_vars

\* C19's case: parse of b'{}}' has raised at the second closing boundary
C19_Witness ==
    /\ mode = "parse" /\ pc = "raised"
    /\ input = <<LBrace, RBrace, RBrace>>
    /\ exc = Raise("ParseError", 2)
    /\ Len(nodes) = 1 /\ stack = <<>>

\* parse is about to read \u, \uc or \ansicpg without a number
C20_ParseNoNumber ==
    /\ mode = "parse" /\ pc = "main"
    /\ NextToken.res = "yield" /\ NextToken.tok.type = "ControlWord"
    /\ NextToken.tok.bytes \in {W_u, W_uc, W_ansicpg}
    /\ ~NextToken.tok.hasnum

\* tokenize is resumed at a \bin that no number follows
C20_BinNoNumber ==
    /\ mode = "tokenize" /\ pc = "start"
    /\ LET o == Offset(readbuf(bs))
       IN  /\ o + Len(BinWord) <= Len(input)
           /\ SubSeq(input, o + 1, o + Len(BinWord)) = BinWord
           /\ o + Len(BinWord) < Len(input) =>
                 /\ ~IsLetter(input[o + Len(BinWord) + 1])
                 /\ ~IsDigit(input[o + Len(BinWord) + 1])
                 /\ input[o + Len(BinWord) + 1] # Minus

\* C20: \u, \uc and \ansicpg without a number make parse raise ParseError
\* with the token's position, and \bin without a number makes tokenize raise
\* ParseError with the position of the word; nothing else escapes, and no
\* Document is returned.
C20_MissingNumber ==
    [][/\ C20_ParseNoNumber =>
             /\ pc' = "raised" /\ document' = NoDocument
             /\ exc' = Raise("ParseError", NextToken.tok.pos)
       /\ C20_BinNoNumber =>
             /\ pc' = "raised"
             /\ exc' = Raise("ParseError", Offset(readbuf(bs)))]_vars

\* C21: the backtracking phase of check_formular_sp terminates: every
\* iteration of its loop strictly decreases i and/or j (so that (0, 0) is
\* reached and the loop is left after at most i + j iterations).
C21_BacktrackDecreases ==
    [][(apc = "backtrack" /\ apc' = "backtrack") => (i' < i \/ j' < j)]_vars

\* the row rows[index + k] exists and is the (k+1)-th item of the list il
IsItemRow(il, rs, index, k) ==
    /\ index + k < Len(rs)
    /\ Len(rs[index + k + 1]) = il.cols + 1
    /\ il.numbers => rs[index + k + 1][1] = NumLabel(k + 1)

\* the length of the longest run of item rows of il that starts at rows[index + k]
RECURSIVE ItemRun(_, _, _, _)
ItemRun(il, rs, index, k) ==
    IF IsItemRow(il, rs, index, k) THEN 1 + ItemRun(il, rs, index, k + 1) ELSE 0

\* C22: ItemList.match(rows, index), index < len(rows), returns
\* (count > 0, count), count being the length of the longest run of item rows
\* starting at index; it returns normally also when the run extends through
\* the last row of rows.
\* The fill is over (it has called match at each row position it reached).
C22_ItemListMatch ==
    apc # "fill" =>
        \A b \in 1..Len(form_rows), index \in 0..Len(rows) - 1 :
            form_rows[b].kind = "ItemList" =>
                ItemList_match(form_rows[b], rows, index)
                    = Matched(ItemRun(form_rows[b], rows, index, 0) > 0,
                              ItemRun(form_rows[b], rows, index, 0))

\* the cell (a, b) of the table obeys the recurrence, the template entry
\* matching (m = 0) or not (m = 1)
IsEditCell(t, a, b, m) ==
    t[a][b] = Min3(t[a - 1][b - 1] + m, t[a - 1][b] + 1, t[a][b - 1] + 1)

\* C23: in the filled table, table[0][j] = j and table[i][0] = i, and every
\* cell with i, j >= 1 is min(table[i-1][j-1] + (0 if the entry matches else
\* 1), table[i-1][j] + 1, table[i][j-1] + 1): a deletion always adds 1.
C23_Recurrence ==
    apc \in {"backtrack", "done"} =>
        /\ \A b \in 0..Len(form_rows) : table[0][b] = b
        /\ \A a \in 0..Len(rows) : table[a][0] = a
        /\ \A a \in 1..Len(rows), b \in 1..Len(form_rows) :
              IsEditCell(table, a, b, 0) \/ IsEditCell(table, a, b, 1)

\* C24: while the table is filled, row_index advances by at most one row per
\* table row: once all cells of the table rows 1..n have been evaluated,
\* row_index <= n.  (With apc = "fill" the table rows 0..i-1 have been
\* evaluated, afterwards all of them.)
C24_RowCursor ==
    /\ (apc = "fill" /\ i > 0) => row_index <= i - 1
    /\ apc \in {"backtrack", "done"} => row_index <= Len(rows)

\* m is n or lies in the subtree of n
AtOrUnder(m, n) == m = n \/ IsUnder(nodes, m, n)

\* a comes before b in document order (pre-order): a is an ancestor of b, or
\* at their lowest common ancestor the branch of a stands before the branch of b
Precedes(a, b) ==
    /\ a # b
    /\ \/ IsUnder(nodes, b, a)
       \/ \E g \in NodeIds : \E ka, kb \in 1..Len(nodes[g].content) :
             /\ ka < kb
             /\ AtOrUnder(a, nodes[g].content[ka])
             /\ AtOrUnder(b, nodes[g].content[kb])

Elems(seq) == {seq[k] : k \in 1..Len(seq)}
NoRepeat(seq) == \A h, k \in 1..Len(seq) : h # k => seq[h] # seq[k]

\* the nodes walk_right(n) is to yield: those after n that are not below n,
\* and the proper ancestors of n
RightOf(n) ==
    {m \in NodeIds : (Precedes(n, m) /\ ~IsUnder(nodes, m, n)) \/ IsUnder(nodes, n, m)}

\* the order of walk_right(n): nodes that are not ancestors of n come in
\* document order, and an ancestor comes after all the yielded nodes below it
\* and before all the others
RightOrdered(n, seq) ==
    \A h, k \in 1..Len(seq) :
        h < k =>
            /\ IsUnder(nodes, n, seq[h]) => ~IsUnder(nodes, seq[k], seq[h])
            /\ IsUnder(nodes, n, seq[k]) => IsUnder(nodes, seq[h], seq[k])
            /\ (~IsUnder(nodes, n, seq[h]) /\ ~IsUnder(nodes, n, seq[k]))
                  => Precedes(seq[h], seq[k])

\* C25: for a node n of a parsed tree, walk_right(n) ends and yields, each
\* exactly once, the nodes that follow n in document order and are not below
\* n, and each proper ancestor of n after the remaining siblings at its level;
\* it yields neither n, nor a descendant of n, nor a node before n that is no
\* ancestor.  walk_left(n) ends and yields, each exactly once, the nodes that
\* precede n in document order (its ancestors among them) and no other.
C25_Walks ==
    walked # NoWalk =>
        /\ walked.right.res = "ok" /\ walked.left.res = "ok"
        /\ NoRepeat(walked.right.nodes) /\ NoRepeat(walked.left.nodes)
        /\ Elems(walked.right.nodes) = RightOf(walked.node)
        /\ RightOrdered(walked.node, walked.right.nodes)
        /\ Elems(walked.left.nodes) = {m \in NodeIds : Precedes(m, walked.node)}

\* the walks of a group with content that has nodes on both sides and an
\* ancestor below the root
C25_Witness ==
    /\ walked # NoWalk
    /\ nodes[walked.node].kind = "Group" /\ nodes[walked.node].content # <<>>
    /\ Len(walked.right.nodes) >= 2 /\ Len(walked.left.nodes) >= 2
    /\ \E g \in NodeIds : IsUnder(nodes, walked.node, g) /\ nodes[g].parent # 0

Reversed(seq) == [k \in 1..Len(seq) |-> seq[Len(seq) + 1 - k]]

\* seq holds each node of the subtree of n exactly once
IsSubtreeOf(n, seq) ==
    NoRepeat(seq) /\ Elems(seq) = {m \in NodeIds : AtOrUnder(m, n)}

\* seq is in document order (pre-order)
InDocumentOrder(seq) == \A h, k \in 1..Len(seq) : h < k => Precedes(seq[h], seq[k])

\* a comes before b in the mirrored pre-order: a is an ancestor of b, or at
\* their lowest common ancestor the branch of a stands after the branch of b
MirrorPrecedes(a, b) ==
    /\ a # b
    /\ \/ IsUnder(nodes, b, a)
       \/ \E g \in NodeIds : \E ka, kb \in 1..Len(nodes[g].content) :
             /\ ka > kb
             /\ AtOrUnder(a, nodes[g].content[ka])
             /\ AtOrUnder(b, nodes[g].content[kb])

\* C26: dfs_ltr(n) yields every node of the subtree of n exactly once in
\* document order, n first, and dfs_rtl(n) yields the same nodes as the exact
\* reversal of the dfs_ltr(n) sequence.
C26_RtlReversesLtr ==
    walked # NoWalk =>
        /\ IsSubtreeOf(walked.node, walked.ltr) /\ InDocumentOrder(walked.ltr)
        /\ walked.rtl = Reversed(walked.ltr)

\* C26 as the code has it: dfs_ltr(n) yields every node of the subtree of n
\* exactly once in document order, n first; dfs_rtl(n) yields the same nodes
\* exactly once, n first and every group before its descendants, the children
\* of each group from last to first; it is the reversal of dfs_ltr(n) only
\* when n has no descendants.
C26_RtlMirrorsLtr ==
    walked # NoWalk =>
        /\ IsSubtreeOf(walked.node, walked.ltr) /\ InDocumentOrder(walked.ltr)
        /\ walked.ltr[1] = walked.node
        /\ IsSubtreeOf(walked.node, walked.rtl)
        /\ \A h, k \in 1..Len(walked.rtl) :
              h < k => MirrorPrecedes(walked.rtl[h], walked.rtl[k])
        /\ walked.rtl[1] = walked.node
        /\ (walked.rtl = Reversed(walked.ltr)) <=> (Len(walked.ltr) = 1)

\* the searches of a group with several children, one of them a group with content
C26_Witness ==
    /\ walked # NoWalk
    /\ Len(nodes[walked.node].content) >= 2
    /\ \E k \in 1..Len(nodes[walked.node].content) :
          /\ nodes[nodes[walked.node].content[k]].kind = "Group"
          /\ nodes[nodes[walked.node].content[k]].content # <<>>
    /\ walked.rtl # walked.ltr

\* c is no line ending, no special symbol and no allow-listed character
IsOtherChar(c) ==
    c \notin {LF, CR, Backslash, LBrace, RBrace, NBSP, SHY, NBHYPHEN} \cup PlainChars

\* flatten was given an encoding and the Document or a Group that holds the
\* Text node whose text was changed
IsFlattenedTo ==
    /\ pc = "flattened_to" /\ TextChanged
    /\ target.encoding # NoEncoding
    /\ \/ target.node = 0
       \/ /\ target.node > 0 /\ nodes[target.node].kind = "Group"
          /\ IsUnder(nodes, assigned.node, target.node)

\* C27: flatten of a Document or Group with a target encoding emits every
\* character of an invalidated Text below it that is outside the lists and
\* that the encoding can represent as an ANSIEscapedChar, and none of them as
\* a \u directive.
C27_TargetEncoding ==
    IsFlattenedTo =>
        \A k \in 1..Len(nodes[assigned.node].text) :
            (/\ IsOtherChar(nodes[assigned.node].text[k])
             /\ Encode(target.encoding, nodes[assigned.node].text[k]).res = "ok")
            => /\ \E h \in 1..Len(flat) :
                     flat[h] = ANSIEscapedChar(
                         Encode(target.encoding, nodes[assigned.node].text[k]).byte, NoPos)
               /\ ~\E h \in 1..Len(flat) :
                     /\ flat[h].type = "ControlWord" /\ flat[h].bytes = W_u
                     /\ flat[h].number = nodes[assigned.node].text[k]

\* the line endings of text from the k-th character on, read left to right:
\* a CR LF or LF CR pair is one, a CR or LF outside such a pair is one
RECURSIVE LineEndings(_, _)
LineEndings(text, k) ==
    IF k > Len(text) THEN 0
    ELSE IF text[k] \notin {CR, LF} THEN LineEndings(text, k + 1)
    ELSE IF k < Len(text) /\ text[k + 1] \in {CR, LF} /\ text[k + 1] # text[k]
    THEN 1 + LineEndings(text, k + 2)
    ELSE 1 + LineEndings(text, k + 1)

\* the \line control words among the tokens from the k-th on
RECURSIVE LineWords(_, _)
LineWords(tokens, k) ==
    IF k > Len(tokens) THEN 0
    ELSE (IF tokens[k].type = "ControlWord" /\ tokens[k].bytes = W_line THEN 1 ELSE 0)
             + LineWords(tokens, k + 1)

\* C28: escape_text_tokens emits exactly one \line per line ending of the
\* text, a line ending being a lone CR, a lone LF or one CR LF / LF CR pair
\* read left to right; m consecutive CR LF pairs give m \line tokens.  (The
\* documents of SpecEdit hold no \line of their own, so the \line tokens of
\* the flattened document are those of the assigned text.)
C28_LineEndings ==
    (pc = "flattened" /\ TextChanged) =>
        LineWords(flat, 1) = LineEndings(nodes[assigned.node].text, 1)

\* the positions of the cell markers of a row
Markers(row) == {k \in 1..Len(row) : match_control_word(nodes, row[k], W_cell)}

\* the position of the m-th cell marker of a row, 0 for m = 0
NthMarker(row, m) ==
    IF m = 0 THEN 0
    ELSE CHOOSE p \in Markers(row) : Cardinality({q \in Markers(row) : q <= p}) = m

\* C29: split_end_by(nodes, marker) yields one group per node matching
\* marker, in order; a group holds the nodes between the previous matching
\* node (or the start) and its own, in order, markers excluded; the nodes
\* after the last matching node are in no group, so that a row has as many
\* cells as it has cell markers.
C29_SplitEndBy ==
    pc = "collected" =>
        /\ Len(rows) = Len(cells)
        /\ \A r \in 1..Len(cells) :
              /\ Len(cells[r].cells) = Cardinality(Markers(cells[r].row))
              /\ Len(rows[r]) = Cardinality(Markers(cells[r].row))
              /\ \A m \in 1..Len(cells[r].cells) :
                    cells[r].cells[m] = SubSeq(cells[r].row,
                                               NthMarker(cells[r].row, m - 1) + 1,
                                               NthMarker(cells[r].row, m) - 1)

\* a row with two cell markers, a cell that holds a node, and a node after
\* the last marker
C29_Witness ==
    /\ pc = "collected"
    /\ \E r \in 1..Len(cells) :
          /\ Len(cells[r].cells) >= 2
          /\ cells[r].cells[1] # <<>>
          /\ ~match_control_word(nodes, cells[r].row[Len(cells[r].row)], W_cell)

\* the input ends in the middle of a token: right after a backslash, inside
\* a \' escape before the second hex digit, or inside the data of a \binN
IsCutInput ==
    \/ \E pre \in {<<>>, <<LBrace>>} :
          \/ input = pre \o <<Backslash>>
          \/ input = pre \o <<Backslash, Quote>>
          \/ /\ Len(input) = Len(pre) + 3
             /\ SubSeq(input, 1, Len(pre) + 2) = pre \o <<Backslash, Quote>>
             /\ IsHexDigit(input[Len(input)])
    \/ \E o \in {0, 1} :
          /\ o = 1 => (input # <<>> /\ input[1] = LBrace)
          /\ IsBinAt(o)
          /\ BinData(o) + BinCount(o) > Len(input)

\* C30: on an input that ends in the middle of a token the pipeline fails
\* with a positioned ParseError: it does not end otherwise, it returns no
\* Document, and it yields no token built from bytes that are not there.
C30_PrematureEnd ==
    (IsCutInput /\ pc \notin {"start", "main", "trailing"}) =>
        /\ pc = "raised"
        /\ exc.type = "ParseError" /\ exc.position # NoPos
        /\ document = NoDocument

=============================================================================
